---- MODULE Spec2Model ----
(***************************************************************************)
(* A model of the prose-critique pipeline: the tolerant coercion of the    *)
(* generative service's replies (agents/primary_analyzer.py,               *)
(* agents/auditor.py), the retrying, caching client (llm_client.py) and    *)
(* the orchestrator that sequences the stages of a run (orchestrator.py).  *)
(***************************************************************************)
EXTENDS Integers, Sequences, FiniteSets, TLC

(***************************************************************************)
(* JSON values, as json.loads builds them.  Every value is a record with a *)
(* tag t; an object carries a function from its keys to values.            *)
(***************************************************************************)
JNull == [t |-> "null"]

JStr(s) == [t |-> "str", s |-> s]

JNum(n) == [t |-> "num", n |-> n]

\* json.loads accepts the literal Infinity and yields float('inf')
JInf == [t |-> "inf"]

JList(l) == [t |-> "list", l |-> l]

JObj(o) == [t |-> "obj", o |-> o]

EmptyObj == JObj(<<>>)

EmptyList == JList(<<>>)

\* isinstance(v, dict)
IsDict(v) == v.t = "obj"

\* k in d, for a dict d
HasKey(d, k) == k \in DOMAIN d.o

\* d.get(k, default), for a dict d
Get(d, k, default) == IF HasKey(d, k) THEN d.o[k] ELSE default

\* bool(v)
Truthy(v) ==
    CASE v.t = "null" -> FALSE
      [] v.t = "str"  -> v.s # ""
      [] v.t = "num"  -> v.n # 0
      [] v.t = "inf"  -> TRUE
      [] v.t = "list" -> Len(v.l) > 0
      [] v.t = "obj"  -> DOMAIN v.o # {}

(***************************************************************************)
(* The outcome of an evaluation: a value, or a raised exception.           *)
(***************************************************************************)
Ok(v) == [raised |-> FALSE, val |-> v]

Raise(e) == [raised |-> TRUE, exc |-> e]

\* the outcome of evaluating the outcomes rs[1], rs[2], ... in this order:
\* the first exception raised, or vals when none raises
InOrder(rs, vals) ==
    IF \E i \in 1..Len(rs) : rs[i].raised
    THEN rs[CHOOSE i \in 1..Len(rs) :
              rs[i].raised /\ \A j \in 1..(i - 1) : ~rs[j].raised]
    ELSE Ok(vals)

\* the items a Python for loop draws from v.  A dict yields its keys and a
\* string its characters: both are strings, and only that is kept of them.
IterItems(v) ==
    CASE v.t = "list" -> Ok(v.l)
      [] v.t = "obj"  -> Ok(IF DOMAIN v.o = {} THEN <<>>
                            ELSE <<JStr(CHOOSE k \in DOMAIN v.o : TRUE)>>)
      [] v.t = "str"  -> Ok(IF v.s = "" THEN <<>> ELSE <<JStr(v.s)>>)
      [] OTHER        -> Raise("TypeError")

\* int(s) and float(s) of a string: the numerals among the strings used here
NumeralValue(s) ==
    CASE s = "3" -> Ok(3)
      [] OTHER   -> Raise("ValueError")

\* _safe_int: int(v), 0 on ValueError or TypeError; int(inf) raises
\* OverflowError, which is not caught
_safe_int(v) ==
    CASE v.t = "num" -> Ok(v.n)
      [] v.t = "inf" -> Raise("OverflowError")
      [] v.t = "str" -> IF NumeralValue(v.s).raised THEN Ok(0)
                        ELSE Ok(NumeralValue(v.s).val)
      [] OTHER       -> Ok(0)

\* _safe_float: float(v), 0.0 on ValueError or TypeError
_safe_float(v) ==
    CASE v.t = "num" -> Ok(JNum(v.n))
      [] v.t = "inf" -> Ok(JInf)
      [] v.t = "str" -> IF NumeralValue(v.s).raised THEN Ok(JNum(0))
                        ELSE Ok(JNum(NumeralValue(v.s).val))
      [] OTHER       -> Ok(JNum(0))

(***************************************************************************)
(* The enumerations of models.py.                                          *)
(***************************************************************************)
Severity == {"minor", "moderate", "major", "critical"}

GlobalIssueCategory ==
    {"logic", "pacing", "voice", "pov_consistency", "character_consistency",
     "contradictions", "tone", "other"}

ReaderQuestionType ==
    {"unclear_reference", "missing_antecedent", "undefined_term", "logical_gap"}

AuditVerdict == {"agree", "mostly_agree", "mixed", "mostly_disagree", "disagree"}

\* enum_cls(v): the member whose value is v, ValueError when there is none
EnumLookup(v, enum_cls) ==
    IF v.t = "str" /\ v.s \in enum_cls THEN Ok(v.s) ELSE Raise("ValueError")

\* _safe_enum: enum_cls(v), default on ValueError or KeyError
_safe_enum(v, enum_cls, default) ==
    IF EnumLookup(v, enum_cls).raised THEN default ELSE EnumLookup(v, enum_cls).val

\* _safe_verdict
_safe_verdict(v) ==
    IF EnumLookup(v, AuditVerdict).raised THEN "agree"
    ELSE EnumLookup(v, AuditVerdict).val

\* _safe_severity falling back to the default severity of the issues of the
\* primary analysis
_safe_severity_minor(v) ==
    IF EnumLookup(v, Severity).raised THEN "minor"
    ELSE EnumLookup(v, Severity).val

\* _safe_severity
_safe_severity(v) ==
    IF EnumLookup(v, Severity).raised THEN "moderate"
    ELSE EnumLookup(v, Severity).val

\* pydantic's validation of a str field given item.get(k, ""): a value that
\* is not a string is rejected
StrArg(item, k) ==
    LET v == Get(item, k, JStr(""))
    IN  IF v.t = "str" THEN Ok(v.s) ELSE Raise("ValidationError")

\* the construction Model(a=..., b=...) of a pydantic model from a dict item:
\* item.get raises AttributeError on a non-dict, then the arguments are
\* evaluated (ints), then the fields are validated (strs)
Construct(item, ints, strs, rec) ==
    IF ~IsDict(item) THEN Raise("AttributeError")
    ELSE InOrder(ints \o strs, rec)

(***************************************************************************)
(* _dict_to_primary (agents/primary_analyzer.py).  A typed result is a     *)
(* record; the fields the code assigns without validation (strengths,      *)
(* summary) hold the JSON value of the reply as it is.                     *)
(***************************************************************************)
DefaultTextOverview ==
    [genre_guess |-> "", tone |-> "", apparent_audience |-> "", language |-> "",
     word_count |-> 0, paragraph_count |-> 0]

DefaultQualityScores ==
    [clarity |-> JNum(0), conciseness |-> JNum(0), vividness |-> JNum(0),
     originality |-> JNum(0), coherence |-> JNum(0), engagement |-> JNum(0),
     overall |-> JNum(0)]

\* PrimaryAnalysis()
DefaultPrimaryAnalysis ==
    [text_overview |-> DefaultTextOverview, structural_outline |-> <<>>,
     local_issues |-> <<>>, global_issues |-> <<>>,
     quality_scores |-> DefaultQualityScores, cliche_detection |-> <<>>,
     reader_questions |-> <<>>, improvement_suggestions |-> <<>>,
     strengths |-> EmptyList, summary |-> JStr("")]

TextOverviewOf(ov) ==
    LET wc == _safe_int(Get(ov, "word_count", JNum(0)))
        pc_ == _safe_int(Get(ov, "paragraph_count", JNum(0)))
        g == StrArg(ov, "genre_guess")
        tn == StrArg(ov, "tone")
        au == StrArg(ov, "apparent_audience")
        la == StrArg(ov, "language")
    IN  Construct(ov, <<wc, pc_>>, <<g, tn, au, la>>,
            [genre_guess |-> g.val, tone |-> tn.val, apparent_audience |-> au.val,
             language |-> la.val, word_count |-> wc.val, paragraph_count |-> pc_.val])

StructuralOutlineItemOf(item) ==
    LET pi == _safe_int(Get(item, "paragraph_index", JNum(0)))
        it == StrArg(item, "intent")
        su == StrArg(item, "summary")
    IN  Construct(item, <<pi>>, <<it, su>>,
            [paragraph_index |-> pi.val, intent |-> it.val, summary |-> su.val])

LocalIssueOf(item) ==
    LET pi == _safe_int(Get(item, "paragraph_index", JNum(0)))
        se == StrArg(item, "sentence")
        ty == StrArg(item, "issue_type")
        de == StrArg(item, "description")
        su == StrArg(item, "suggestion")
    IN  Construct(item, <<pi>>, <<se, ty, de, su>>,
            [paragraph_index |-> pi.val, sentence |-> se.val, issue_type |-> ty.val,
             severity |-> _safe_enum(Get(item, "severity", JStr("minor")),
                                     Severity, "minor"),
             description |-> de.val, suggestion |-> su.val])

GlobalIssueOf(item) ==
    LET de == StrArg(item, "description")
        ev == StrArg(item, "evidence")
    IN  Construct(item, <<>>, <<de, ev>>,
            [category |-> _safe_enum(Get(item, "category", JStr("other")),
                                     GlobalIssueCategory, "other"),
             severity |-> _safe_enum(Get(item, "severity", JStr("minor")),
                                     Severity, "minor"),
             description |-> de.val, evidence |-> ev.val])

QualityScoresOf(qs) ==
    Construct(qs, <<>>, <<>>,
        [clarity |-> _safe_float(Get(qs, "clarity", JNum(0))).val,
         conciseness |-> _safe_float(Get(qs, "conciseness", JNum(0))).val,
         vividness |-> _safe_float(Get(qs, "vividness", JNum(0))).val,
         originality |-> _safe_float(Get(qs, "originality", JNum(0))).val,
         coherence |-> _safe_float(Get(qs, "coherence", JNum(0))).val,
         engagement |-> _safe_float(Get(qs, "engagement", JNum(0))).val,
         overall |-> _safe_float(Get(qs, "overall", JNum(0))).val])

ClicheItemOf(item) ==
    LET ph == StrArg(item, "phrase")
        lo == StrArg(item, "location")
        su == StrArg(item, "suggestion")
    IN  Construct(item, <<>>, <<ph, lo, su>>,
            [phrase |-> ph.val, location |-> lo.val, suggestion |-> su.val])

ReaderQuestionOf(item) ==
    LET qu == StrArg(item, "question")
        lo == StrArg(item, "location")
    IN  Construct(item, <<>>, <<qu, lo>>,
            [question |-> qu.val, location |-> lo.val,
             type |-> _safe_enum(Get(item, "type", JStr("unclear_reference")),
                                 ReaderQuestionType, "unclear_reference")])

ImprovementSuggestionOf(item) ==
    LET ca == StrArg(item, "category")
        su == StrArg(item, "suggestion")
    IN  Construct(item, <<>>, <<ca, su>>,
            [category |-> ca.val, suggestion |-> su.val,
             priority |-> _safe_enum(Get(item, "priority", JStr("moderate")),
                                     Severity, "moderate")])

(***************************************************************************)
(* The items of _dict_to_audit (agents/auditor.py).                        *)
(***************************************************************************)
\* AuditResult()
DefaultAuditResult ==
    [audit_verdict |-> "agree", confidence_score |-> JNum(0),
     disagreements |-> <<>>, missed_issues |-> <<>>, hallucinations |-> <<>>,
     weak_critiques |-> <<>>, summary |-> JStr("")]

AuditDisagreementOf(item) ==
    LET cl == StrArg(item, "claim")
        is == StrArg(item, "issue")
        ev == StrArg(item, "evidence")
    IN  Construct(item, <<>>, <<cl, is, ev>>,
            [claim |-> cl.val, issue |-> is.val, evidence |-> ev.val,
             severity |-> _safe_severity(Get(item, "severity", JStr("moderate")))])

AuditMissedIssueOf(item) ==
    LET de == StrArg(item, "description")
        ev == StrArg(item, "evidence")
    IN  Construct(item, <<>>, <<de, ev>>,
            [description |-> de.val, evidence |-> ev.val,
             severity |-> _safe_severity(Get(item, "severity", JStr("moderate")))])

AuditHallucinationOf(item) ==
    LET cl == StrArg(item, "claim")
        wh == StrArg(item, "why_hallucinated")
    IN  Construct(item, <<>>, <<cl, wh>>,
            [claim |-> cl.val, why_hallucinated |-> wh.val])

AuditWeakCritiqueOf(item) ==
    LET cl == StrArg(item, "claim")
        ww == StrArg(item, "why_weak")
    IN  Construct(item, <<>>, <<cl, ww>>, [claim |-> cl.val, why_weak |-> ww.val])

\* the item built from one item of the list field f
ItemOf(f, item) ==
    CASE f = "structural_outline" -> StructuralOutlineItemOf(item)
      [] f = "local_issues" -> LocalIssueOf(item)
      [] f = "global_issues" -> GlobalIssueOf(item)
      [] f = "cliche_detection" -> ClicheItemOf(item)
      [] f = "reader_questions" -> ReaderQuestionOf(item)
      [] f = "improvement_suggestions" -> ImprovementSuggestionOf(item)
      [] f = "disagreements" -> AuditDisagreementOf(item)
      [] f = "missed_issues" -> AuditMissedIssueOf(item)
      [] f = "hallucinations" -> AuditHallucinationOf(item)
      [] f = "weak_critiques" -> AuditWeakCritiqueOf(item)

\* for item in d.get(f, []): out.append(...)
ForEach(d, f) ==
    LET it == IterItems(Get(d, f, EmptyList))
    IN  IF it.raised THEN it
        ELSE LET rs == [i \in 1..Len(it.val) |-> ItemOf(f, it.val[i])]
             IN  InOrder(rs, [i \in 1..Len(rs) |-> rs[i].val])

_dict_to_primary(d) ==
    IF ~IsDict(d) THEN Raise("AttributeError")
    ELSE
    LET ov == Get(d, "text_overview", EmptyObj)
        ovr == IF Truthy(ov) THEN TextOverviewOf(ov) ELSE Ok(DefaultTextOverview)
        so == ForEach(d, "structural_outline")
        li == ForEach(d, "local_issues")
        gi == ForEach(d, "global_issues")
        qs == Get(d, "quality_scores", EmptyObj)
        qsr == IF Truthy(qs) THEN QualityScoresOf(qs) ELSE Ok(DefaultQualityScores)
        cd == ForEach(d, "cliche_detection")
        rq == ForEach(d, "reader_questions")
        im == ForEach(d, "improvement_suggestions")
    IN  InOrder(<<ovr, so, li, gi, qsr, cd, rq, im>>,
            [text_overview |-> ovr.val, structural_outline |-> so.val,
             local_issues |-> li.val, global_issues |-> gi.val,
             quality_scores |-> qsr.val, cliche_detection |-> cd.val,
             reader_questions |-> rq.val, improvement_suggestions |-> im.val,
             strengths |-> Get(d, "strengths", EmptyList),
             summary |-> Get(d, "summary", JStr(""))])

_dict_to_audit(d) ==
    IF ~IsDict(d) THEN Raise("AttributeError")
    ELSE
    LET di == ForEach(d, "disagreements")
        mi == ForEach(d, "missed_issues")
        ha == ForEach(d, "hallucinations")
        we == ForEach(d, "weak_critiques")
    IN  InOrder(<<di, mi, ha, we>>,
            [audit_verdict |-> _safe_verdict(Get(d, "audit_verdict", JStr("agree"))),
             confidence_score |->
                 _safe_float(Get(d, "confidence_score", JNum(0))).val,
             disagreements |-> di.val, missed_issues |-> mi.val,
             hallucinations |-> ha.val, weak_critiques |-> we.val,
             summary |-> Get(d, "summary", JStr(""))])

(***************************************************************************)
(* Texts.  A text is a sequence of tokens: a prose character, a white      *)
(* space character, the serialisation of one JSON value, the opening fence *)
(* ```json of a code block, a line made of ``` alone, and, in prose, an    *)
(* opening brace with a word after it and a closing brace.  The strings of *)
(* the JSON values used hold no brace, quote or backslash.                 *)
(***************************************************************************)
Ch == [k |-> "ch"]

Ws == [k |-> "ws"]

J(v) == [k |-> "json", v |-> v]

FenceJson == [k |-> "fence_json"]

Fence == [k |-> "fence"]

LBrace == [k |-> "lbrace"]

RBrace == [k |-> "rbrace"]

\* str.strip()
RECURSIVE LStrip(_)
LStrip(s) == IF s # <<>> /\ Head(s) = Ws THEN LStrip(Tail(s)) ELSE s

RECURSIVE RStrip(_)
RStrip(s) ==
    IF s # <<>> /\ s[Len(s)] = Ws THEN RStrip(SubSeq(s, 1, Len(s) - 1)) ELSE s

Strip(s) == RStrip(LStrip(s))

\* json.loads: surrounding white space is skipped, and the rest must be
\* exactly one JSON value
json_loads(s) ==
    IF Len(Strip(s)) = 1 /\ Strip(s)[1].k = "json"
    THEN Ok(Strip(s)[1].v)
    ELSE Raise("JSONDecodeError")

\* the positions of the tokens of kind k in s
Positions(s, k) == {i \in 1..Len(s) : s[i].k = k}

Min(S) == CHOOSE x \in S : \A y \in S : x <= y

\* pat.search(text) for the two fence patterns: the group of the leftmost
\* opening fence that a line starting with ``` follows, up to the first such
\* line (the closing part of both patterns ends with the three backquotes)
FencedCandidate(s, open) ==
    LET closers == Positions(s, "fence") \cup Positions(s, "fence_json")
        opens == {i \in Positions(s, open) : \E j \in closers : j > i}
    IN  IF opens = {} THEN Raise("NoMatch")
        ELSE LET i == Min(opens)
                 j == Min({j \in closers : j > i})
             IN  Ok(Strip(SubSeq(s, i + 1, j - 1)))

\* the object whose opening brace is the first brace of the serialisation
\* of v, when it has one
RECURSIVE FirstObject(_)
FirstObject(v) ==
    IF v.t = "obj" THEN Ok(v)
    ELSE IF v.t = "list" /\ \E i \in 1..Len(v.l) : ~FirstObject(v.l[i]).raised
    THEN FirstObject(v.l[Min({i \in 1..Len(v.l) : ~FirstObject(v.l[i]).raised})])
    ELSE Raise("NoMatch")

\* the scan of the brace matching from position i at the given depth: the
\* position of the brace that brings the depth to 0, or 0 when the text ends
\* before; the braces of a serialised value are balanced
RECURSIVE ClosingBrace(_, _, _)
ClosingBrace(s, i, depth) ==
    IF i > Len(s) THEN 0
    ELSE IF s[i].k = "lbrace" THEN ClosingBrace(s, i + 1, depth + 1)
    ELSE IF s[i].k = "rbrace"
    THEN IF depth = 1 THEN i ELSE ClosingBrace(s, i + 1, depth - 1)
    ELSE ClosingBrace(s, i + 1, depth)

\* the brace matching of extract_json: the text from the first opening brace
\* to the brace that closes it
BraceCandidate(s) ==
    LET starts == {i \in 1..Len(s) :
                      \/ s[i].k = "lbrace"
                      \/ s[i].k = "json" /\ ~FirstObject(s[i].v).raised}
    IN  IF starts = {} THEN Raise("NoMatch")
        ELSE LET i == Min(starts)
                 j == ClosingBrace(s, i + 1, 1)
             IN  IF s[i].k = "json" THEN Ok(<<J(FirstObject(s[i].v).val)>>)
                 ELSE IF j = 0 THEN Raise("NoMatch")
                 ELSE Ok(SubSeq(s, i, j))

\* extract_json with the brace matching tried before the code blocks
extract_json_braces_first(text) ==
    LET stripped == Strip(text)
        md1 == FencedCandidate(text, "fence_json")
        md2 == FencedCandidate(text, "fence")
        br == BraceCandidate(text)
    IN  IF text = <<>> \/ stripped = <<>> THEN text
        ELSE IF ~json_loads(stripped).raised THEN stripped
        ELSE IF ~br.raised /\ ~json_loads(br.val).raised THEN br.val
        ELSE IF ~md1.raised /\ ~json_loads(md1.val).raised THEN md1.val
        ELSE IF ~md2.raised /\ ~json_loads(md2.val).raised THEN md2.val
        ELSE text

\* extract_json: the stripped text when it parses, else the inside of the
\* first ```json block, else of the first ``` block, else the first balanced
\* object, each when it parses; the text itself otherwise
extract_json(text) ==
    LET stripped == Strip(text)
        md1 == FencedCandidate(text, "fence_json")
        md2 == FencedCandidate(text, "fence")
        br == BraceCandidate(text)
    IN  IF text = <<>> \/ stripped = <<>> THEN text
        ELSE IF ~json_loads(stripped).raised THEN stripped
        ELSE IF ~md1.raised /\ ~json_loads(md1.val).raised THEN md1.val
        ELSE IF ~md2.raised /\ ~json_loads(md2.val).raised THEN md2.val
        ELSE IF ~br.raised /\ ~json_loads(br.val).raised THEN br.val
        ELSE text

PrimaryParseError == JStr("[JSON parse error]. The model response could not be parsed.")

AuditParseError == JStr("[Parse error]")

\* the unwrapping of {"response": {...}} in _parse_primary_response
Unwrap(data) ==
    IF IsDict(data) /\ Cardinality(DOMAIN data.o) = 1
    THEN LET key == CHOOSE k \in DOMAIN data.o : TRUE
             inner == data.o[key]
         IN  IF IsDict(inner) /\ (HasKey(inner, "text_overview")
                                  \/ HasKey(inner, "quality_scores")
                                  \/ HasKey(inner, "local_issues"))
             THEN inner ELSE data
    ELSE data

\* _parse_primary_response without its except clause
_parse_primary_response_strict(raw) ==
    LET data == json_loads(extract_json(raw))
    IN  IF data.raised THEN Raise("JSONDecodeError")
        ELSE _dict_to_primary(Unwrap(data.val))

\* json.loads(extract_json(raw)), the unwrapping and the coercion; the
\* parse-error result when json.loads raises
_parse_primary_response(raw) ==
    LET data == json_loads(extract_json(raw))
    IN  IF data.raised
        THEN Ok([DefaultPrimaryAnalysis EXCEPT !.summary = PrimaryParseError])
        ELSE _dict_to_primary(Unwrap(data.val))

\* the same for the audit, without unwrapping
_parse_audit_response(raw) ==
    LET data == json_loads(extract_json(raw))
    IN  IF data.raised
        THEN Ok([DefaultAuditResult EXCEPT !.summary = AuditParseError])
        ELSE _dict_to_audit(data.val)

(***************************************************************************)
(* The replies the coercion is checked on: every value that is not an      *)
(* object, and objects with one field set to a value of any shape.  A list *)
(* field holds up to MaxItems items, one of them of any shape.             *)
(***************************************************************************)
MaxItems == 2

ItemKeys ==
    {"paragraph_index", "intent", "summary", "sentence", "issue_type", "severity",
     "description", "suggestion", "category", "evidence", "phrase", "location",
     "question", "type", "priority", "claim", "issue", "why_hallucinated",
     "why_weak"}

ItemFieldVals ==
    {JNull, JStr("x"), JStr("major"), JStr("Major"), JStr("3"), JNum(2), JInf,
     EmptyList}

Items ==
    {JNull, JStr("x"), JNum(1), EmptyList, EmptyObj}
    \cup {JObj(k :> v) : k \in ItemKeys, v \in ItemFieldVals}

\* an item every coercion accepts
GoodItem == JObj("severity" :> JStr("critical"))

ItemLists ==
    UNION {{[i \in 1..n |-> IF i = p THEN it ELSE GoodItem] :
               p \in 1..n, it \in Items} : n \in 1..MaxItems}

ListFieldVals ==
    {JNull, JStr(""), JStr("x"), JNum(1), EmptyObj, JObj("a" :> JNull), EmptyList}
    \cup {JList(l) : l \in ItemLists}

PrimaryListFields ==
    {"structural_outline", "local_issues", "global_issues", "cliche_detection",
     "reader_questions", "improvement_suggestions"}

AuditListFields == {"disagreements", "missed_issues", "hallucinations", "weak_critiques"}

ObjFieldKeys ==
    {"genre_guess", "tone", "apparent_audience", "language", "word_count",
     "paragraph_count", "clarity", "conciseness", "vividness", "originality",
     "coherence", "engagement", "overall"}

ObjFieldVals ==
    {JNull, JStr(""), JStr("x"), JNum(1), EmptyList, JList(<<JNull>>), EmptyObj}
    \cup {JObj(k :> v) : k \in ObjFieldKeys, v \in ItemFieldVals}

ScalarFields == {"strengths", "summary", "audit_verdict", "confidence_score"}

ScalarFieldVals ==
    {JNull, JStr("x"), JStr("mixed"), JStr("3"), JNum(2), JInf, EmptyObj,
     JList(<<JStr("x")>>)}

Replies ==
    {JNull, JStr("x"), JNum(1), EmptyList, JList(<<EmptyObj>>), EmptyObj}
    \cup {JObj(f :> v) : f \in PrimaryListFields \cup AuditListFields,
                         v \in ListFieldVals}
    \cup {JObj(f :> v) : f \in {"text_overview", "quality_scores"}, v \in ObjFieldVals}
    \cup {JObj(f :> v) : f \in ScalarFields, v \in ScalarFieldVals}

(***************************************************************************)
(* State.  reply, raw and coerced belong to the parsing and coercion of    *)
(* one reply: the parsed value, the text, and what is made of them;        *)
(* config, text, requirements are the inputs of one Orchestrator.run; pc,  *)
(* stage, progress, locals, outcome follow that run; cancel is the flag    *)
(* the run's cancel_check reads; saved is the run store of save_run; chat  *)
(* holds, for every caller of LLMClient.chat, the frame of its call;       *)
(* call_log the _call_log of its client; cache the files of the cache      *)
(* directory; written the texts that have been written under each key.     *)
(***************************************************************************)
VARIABLES reply, raw, coerced, config, text, requirements, pc, stage, cancel,
          progress, locals, outcome, saved, chat, call_log, cache, written,
          orchestrators, handlers, level, log_files, paragraphs, min_count,
          analysis, window, language, _active_runs, workers, response,
          settings, exported

coerceVars == <<reply, raw, coerced>>

inputVars == <<config, text, requirements>>

runVars == <<pc, stage, cancel, progress, locals, outcome, saved>>

chatVars == <<chat, call_log, cache, written>>

logVars == <<orchestrators, handlers, level, log_files>>

heurVars == <<paragraphs, min_count, analysis, window, language>>

webVars == <<_active_runs, workers, response>>

exportVars == <<settings, exported>>

vars == <<reply, raw, coerced, config, text, requirements, pc, stage, cancel,
          progress, locals, outcome, saved, chat, call_log, cache, written,
          orchestrators, handlers, level, log_files, paragraphs, min_count,
          analysis, window, language, _active_runs, workers, response,
          settings, exported>>

(***************************************************************************)
(* Bounds of the model.                                                    *)
(***************************************************************************)
MaxRetries == 2

MaxInputChars == 1

MaxConcurrentRetries == 1

\* the records one run logs
MaxRecords == 2

\* the paragraphs of a text, and the tokens of a paragraph
MaxParagraphs == 2

MaxWords == 3

(***************************************************************************)
(* Configuration (config.py).                                              *)
(***************************************************************************)
Roles == {"primary", "audit"}

Configs ==
    [enable_audit : BOOLEAN, enable_cache : BOOLEAN,
     max_input_chars : {MaxInputChars},
     primary : [model : {"gpt-4o"}, temperature : {"0.3"}, top_p : {"1.0"},
                max_tokens : {16384}, retries : 0..MaxRetries],
     audit : [model : {"gpt-4o-mini"}, temperature : {"0.2"}, top_p : {"1.0"},
              max_tokens : {8192}, retries : 0..MaxRetries]]

\* audit roles configured with the model of the primary role
AuditOnPrimaryModel ==
    [model : {"gpt-4o"}, temperature : {"0.3", "0.2"}, top_p : {"0.9"},
     max_tokens : {8192}, retries : {0}]

\* the model configuration LLMClient._get_client resolves for a role
_get_client(role) == IF role = "audit" THEN config.audit ELSE config.primary

(***************************************************************************)
(* The cache (llm_client.py).  The key is the SHA-256 of the JSON dump of  *)
(* model, messages and temperature: it is modelled by the dumped triple.   *)
(* A file is the sequence of the tokens it holds.                          *)
(***************************************************************************)
\* the key made of model and messages alone
_cache_key_without_temperature(model, messages, temperature) ==
    [model |-> model, messages |-> messages, t |-> ""]

_cache_key(model, messages, temperature) ==
    [model |-> model, messages |-> messages, t |-> temperature]

\* _read_cache looking for the file under another name than _write_cache gives it
_read_cache_elsewhere(files, key) == [hit |-> FALSE]

\* _read_cache: the text of the file when it exists, None otherwise
_read_cache(files, key) ==
    IF key \in DOMAIN files THEN [hit |-> TRUE, text |-> files[key]]
    ELSE [hit |-> FALSE]

\* open(p, "w") of Path.write_text: the file is created or truncated
OpenForWrite(files, key) == (key :> <<>>) @@ files

\* the write of Path.write_text, from offset 0 of the opened file
WriteData(files, key, data) ==
    (key :> data \o SubSeq(files[key], Len(data) + 1, Len(files[key]))) @@ files

(***************************************************************************)
(* LLMClient.chat.  The frame of a call holds the locals of chat and, to   *)
(* observe the call, the number of requests it has dispatched, the waits   *)
(* it has made and the exceptions its attempts have caught.                *)
(***************************************************************************)
Callers == {"c1", "c2"}

\* a message list is a record with a field kind; this one stands for no list
NoMessages == [kind |-> "none"]

IdleFrame ==
    [st |-> "idle", role |-> "primary", prompt_id |-> "",
     messages |-> NoMessages, json_mode |-> TRUE, attempt |-> 0,
     ck |-> _cache_key("", NoMessages, ""), text |-> <<>>,
     meta |-> [cached |-> FALSE], errs |-> <<>>, requests |-> 0, sleeps |-> <<>>]

\* the frame of a call chat(messages, role, prompt_id, json_mode)
NewCall(role, prompt_id, messages, json_mode) ==
    [IdleFrame EXCEPT !.st = "begin", !.role = role,
                      !.prompt_id = prompt_id, !.messages = messages,
                      !.json_mode = json_mode]

\* what the service may answer to a request: a JSON object alone, the same
\* object after some prose, prose alone, and a JSON value that is no object
GoodReply == JObj("summary" :> JStr("fine"))

ServiceTexts ==
    {<<J(GoodReply)>>, <<Ch, Ws, J(GoodReply)>>, <<Ch, Ch>>, <<J(JNull)>>}

\* what a failed request raises
ServiceErrors == {"APITimeoutError", "APIConnectionError"}

\* RuntimeError(f"LLM call failed after {retries + 1} attempts: {last_err}")
LLMFailed(n, last_err) ==
    [type |-> "RuntimeError",
     msg |-> [text |-> "LLM call failed", attempts |-> n, cause |-> last_err]]

\* a linear wait, 2 * attempt
Backoff_linear(attempt) == 2 * attempt

\* 2 ** attempt
Backoff(attempt) == 2 ^ attempt

\* the except clause of the retry loop on attempt f.attempt: the error is
\* kept, and the loop waits and goes on, or ends and chat raises
Except(f, e) ==
    IF f.attempt < _get_client(f.role).retries
    THEN [f EXCEPT !.st = "sleep", !.errs = Append(@, e)]
    ELSE [f EXCEPT !.st = "raised", !.errs = Append(@, e)]

\* the head of chat with the cache looked up whatever enable_cache says
ChatBegin_cache_always(c) ==
    LET f == chat[c]
        mcfg == _get_client(f.role)
        ck == _cache_key(mcfg.model, f.messages, mcfg.temperature)
        cached == _read_cache(cache, ck)
        meta == [call_id |-> <<"ck", ck>>, model |-> mcfg.model,
                 prompt_id |-> f.prompt_id, cached |-> TRUE]
    IN  /\ f.st = "begin"
        /\ IF cached.hit
           THEN /\ chat' = [chat EXCEPT ![c] = [f EXCEPT !.st = "returned",
                                   !.ck = ck, !.text = cached.text,
                                   !.meta = meta]]
                /\ call_log' = [call_log EXCEPT ![c] = Append(@, meta)]
           ELSE /\ chat' = [chat EXCEPT ![c] = [f EXCEPT !.st = "attempt",
                                   !.ck = IF config.enable_cache THEN ck ELSE @]]
                /\ UNCHANGED call_log
        /\ UNCHANGED <<cache, written>>

\* the head of chat: the cache look-up when caching is enabled
ChatBegin(c) ==
    LET f == chat[c]
        mcfg == _get_client(f.role)
        ck == _cache_key(mcfg.model, f.messages, mcfg.temperature)
        cached == _read_cache(cache, ck)
        meta == [call_id |-> <<"ck", ck>>, model |-> mcfg.model,
                 prompt_id |-> f.prompt_id, cached |-> TRUE]
    IN  /\ f.st = "begin"
        /\ IF config.enable_cache /\ cached.hit
           THEN /\ chat' = [chat EXCEPT ![c] = [f EXCEPT !.st = "returned",
                                   !.ck = ck, !.text = cached.text,
                                   !.meta = meta]]
                /\ call_log' = [call_log EXCEPT ![c] = Append(@, meta)]
           ELSE /\ chat' = [chat EXCEPT ![c] = [f EXCEPT !.st = "attempt",
                                   !.ck = IF config.enable_cache THEN ck ELSE @]]
                /\ UNCHANGED call_log
        /\ UNCHANGED <<cache, written>>

\* one attempt of the retry loop: the request is dispatched and fails, or
\* the service answers and the answer is cleaned and logged
ChatAttempt(c) ==
    LET f == [chat[c] EXCEPT !.requests = @ + 1]
        mcfg == _get_client(f.role)
    IN  /\ chat[c].st = "attempt"
        /\ \/ \E e \in ServiceErrors :
                 /\ chat' = [chat EXCEPT ![c] = Except(f, e)]
                 /\ UNCHANGED call_log
           \/ \E raw_text \in ServiceTexts :
                 LET txt == IF f.json_mode THEN extract_json(raw_text) ELSE raw_text
                     meta == [call_id |-> <<f.role, f.prompt_id, f.attempt>>,
                              model |-> mcfg.model, prompt_id |-> f.prompt_id,
                              cached |-> FALSE]
                 IN  /\ chat' = [chat EXCEPT ![c] = [f EXCEPT !.text = txt,
                                     !.meta = meta,
                                     !.st = IF config.enable_cache THEN "write_open"
                                            ELSE "returned"]]
                     /\ call_log' = [call_log EXCEPT ![c] = Append(@, meta)]
        /\ UNCHANGED <<cache, written>>

\* _write_cache, first half: the directory is made and the file is opened,
\* which truncates it, or this fails and the attempt's except clause runs
ChatWriteOpen(c) ==
    /\ chat[c].st = "write_open"
    /\ \/ /\ cache' = OpenForWrite(cache, chat[c].ck)
          /\ chat' = [chat EXCEPT ![c].st = "write_data"]
       \/ /\ chat' = [chat EXCEPT ![c] = Except(chat[c], "OSError")]
          /\ UNCHANGED cache
    /\ UNCHANGED <<call_log, written>>

\* _write_cache, second half: the text is written and chat returns, or the
\* write fails, the file stays as it is and the except clause runs
ChatWriteData(c) ==
    LET f == chat[c]
    IN  /\ f.st = "write_data"
        /\ \/ /\ cache' = WriteData(cache, f.ck, f.text)
              /\ written' = (f.ck :> (IF f.ck \in DOMAIN written
                                      THEN written[f.ck] ELSE {}) \cup {f.text})
                            @@ written
              /\ chat' = [chat EXCEPT ![c].st = "returned"]
           \/ /\ chat' = [chat EXCEPT ![c] = Except(f, "OSError")]
              /\ UNCHANGED <<cache, written>>
        /\ UNCHANGED call_log

\* await asyncio.sleep(2 ** attempt), then the next attempt
ChatSleep(c) ==
    /\ chat[c].st = "sleep"
    /\ chat' = [chat EXCEPT ![c] = [@ EXCEPT !.st = "attempt",
                                            !.sleeps = Append(@, Backoff(chat[c].attempt)),
                                            !.attempt = @ + 1]]
    /\ UNCHANGED <<call_log, cache, written>>

ChatStep(c) ==
    \/ ChatBegin(c)
    \/ ChatAttempt(c)
    \/ ChatWriteOpen(c)
    \/ ChatWriteData(c)
    \/ ChatSleep(c)

\* the error chat raises when its loop has ended
ChatError(f) == LLMFailed(_get_client(f.role).retries + 1, f.errs[Len(f.errs)])

InitChat ==
    /\ chat = [c \in Callers |-> IdleFrame]
    /\ call_log = [c \in Callers |-> <<>>]
    /\ written = <<>>

(***************************************************************************)
(* Repetition detection (heuristics.py).  A paragraph is the sequence of   *)
(* its tokens, words as written and punctuation marks; the texts are       *)
(* English.                                                                *)
(***************************************************************************)
_STOP_WORDS_EN ==
   {"the", "a", "an", "is", "are", "was", "were", "be", "been", "being",
    "have", "has", "had", "do", "does", "did", "will", "would", "shall",
    "should", "may", "might", "must", "can", "could", "to", "of", "in",
    "for", "on", "with", "at", "by", "from", "as", "into", "through",
    "during", "before", "after", "above", "below", "between", "out",
    "off", "over", "under", "again", "further", "then", "once", "and",
    "but", "or", "nor", "not", "no", "so", "if", "it", "its", "this",
    "that", "these", "those", "he", "she", "they", "we", "you", "i",
    "me", "him", "her", "us", "them", "my", "your", "his", "our",
    "their", "what", "which", "who", "whom", "how", "when", "where",
    "why", "all", "each", "every", "both", "few", "more", "most",
    "other", "some", "such", "only", "own", "same", "than", "too",
    "very", "just", "about", "up"}

Punctuation == {".", ","}

\* str.lower on the words that are written with a capital
Lower(tok) ==
    CASE tok = "The" -> "the"
      [] tok = "Dog" -> "dog"
      [] tok = "He" -> "he"
      [] tok = "They" -> "they"
      [] tok = "John" -> "john"
      [] OTHER -> tok

IsWord(tok) == tok \notin Punctuation

\* re.findall(r'\b\w+\b', para.lower())
FindWords(para) == SelectSeq([i \in 1..Len(para) |-> Lower(para[i])], IsWord)

\* " ".join(gram)
RECURSIVE Join(_)
Join(gram) ==
    IF Len(gram) = 1 THEN gram[1] ELSE gram[1] \o " " \o Join(Tail(gram))

\* all(w in stop for w in gram)
AllStop(gram) == \A i \in 1..Len(gram) : gram[i] \in _STOP_WORDS_EN

\* the grams of size n of a paragraph that the loop records, in its order
GramsOf(words, n) ==
    SelectSeq([i \in 1..(Len(words) - n + 1) |-> SubSeq(words, i, i + n - 1)],
              LAMBDA gram : ~AllStop(gram))

\* what the loops over n and i append for paragraph pi
RECURSIVE NgramOccurrences(_, _, _)
NgramOccurrences(words, pi, ngram_sizes) ==
    IF ngram_sizes = <<>> THEN <<>>
    ELSE LET grams == GramsOf(words, Head(ngram_sizes))
         IN  [i \in 1..Len(grams) |-> [key |-> Join(grams[i]), pi |-> pi]]
                 \o NgramOccurrences(words, pi, Tail(ngram_sizes))

\* the words of paragraph pi the word pass records
WordOccurrences(words, pi) ==
    LET kept == SelectSeq(words, LAMBDA w : ~(w \in _STOP_WORDS_EN \/ Len(w) < 3))
    IN  [i \in 1..Len(kept) |-> [key |-> kept[i], pi |-> pi]]

\* the occurrences of all paragraphs from the k-th on, paragraph indices
\* counted from 0; sizes is <<>> for the word pass
RECURSIVE Occurrences(_, _, _)
Occurrences(paras, k, sizes) ==
    IF k > Len(paras) THEN <<>>
    ELSE (IF sizes = <<>> THEN WordOccurrences(FindWords(paras[k]), k - 1)
          ELSE NgramOccurrences(FindWords(paras[k]), k - 1, sizes))
             \o Occurrences(paras, k + 1, sizes)

\* the keys of a dict in the order of their insertion: setdefault inserts
\* a key at its first occurrence
KeysInOrder(occ) ==
    LET firsts == SelectSeq([i \in 1..Len(occ) |-> i],
                            LAMBDA i : \A j \in 1..(i - 1) : occ[j].key # occ[i].key)
    IN  [i \in 1..Len(firsts) |-> occ[firsts[i]].key]

\* sorted(S) for a set of integers
RECURSIVE Sorted(_)
Sorted(S) ==
    IF S = {} THEN <<>> ELSE <<Min(S)>> \o Sorted(S \ {Min(S)})

\* RepetitionItem(phrase=key, count=len(locs), locations=sorted(set(locs)))
RepetitionItem(key, occ) ==
    LET locs == SelectSeq(occ, LAMBDA o : o.key = key)
    IN  [phrase |-> key, count |-> Len(locs),
         locations |-> Sorted({locs[i].pi : i \in 1..Len(locs)})]

\* the items of the keys whose occurrences reach min, in the order of the dict
Results(occ, min) ==
    LET keys == KeysInOrder(occ)
    IN  SelectSeq([i \in 1..Len(keys) |-> RepetitionItem(keys[i], occ)],
                  LAMBDA r : r.count >= min)

\* the items of count c and below, greatest count first, items of one count
\* in the order they have in results
RECURSIVE FromCount(_, _)
FromCount(results, c) ==
    IF c = 0 THEN <<>>
    ELSE SelectSeq(results, LAMBDA r : r.count = c) \o FromCount(results, c - 1)

\* results left in the order of the dict
sort_by_count_skipped(results) == results

\* results.sort(key=lambda r: r.count, reverse=True)
sort_by_count(results) ==
    LET top == IF results = <<>> THEN 0
               ELSE CHOOSE c \in {results[i].count : i \in 1..Len(results)} :
                       \A i \in 1..Len(results) : results[i].count <= c
    IN  FromCount(results, top)

\* results[:n]
Top(results, n) == SubSeq(results, 1, IF Len(results) < n THEN Len(results) ELSE n)

NgramCap == 30

WordCap == 20

\* detect_repetitions
detect_repetitions(paras, min, ngram_sizes) ==
    Top(sort_by_count(Results(Occurrences(paras, 1, ngram_sizes), min)), NgramCap)

\* detect_word_repetitions
detect_word_repetitions(paras, min) ==
    Top(sort_by_count(Results(Occurrences(paras, 1, <<>>), min)), WordCap)

\* the loop of run_deterministic_analysis over all_reps: an item is kept
\* when no item before it has its phrase
DedupByPhrase(all_reps) ==
    LET kept == SelectSeq([i \in 1..Len(all_reps) |-> i],
                          LAMBDA i : \A j \in 1..(i - 1) :
                                        all_reps[j].phrase # all_reps[i].phrase)
    IN  [i \in 1..Len(kept) |-> all_reps[kept[i]]]

\* the default arguments of the two passes
DefaultNgramMin == 3

DefaultWordMin == 5

DefaultNgramSizes == <<2, 3>>

\* deduped_reps of run_deterministic_analysis
deduped_reps(paras) ==
    DedupByPhrase(detect_repetitions(paras, DefaultNgramMin, DefaultNgramSizes)
                     \o detect_word_repetitions(paras, DefaultWordMin))

(***************************************************************************)
(* Sentences and the coreference pass (utils/segmentation.py,              *)
(* utils/heuristics.py).  A paragraph is its sequence of tokens; none of   *)
(* the tokens is an abbreviation, and every sentence is shorter than the   *)
(* 100 characters the context of a flag keeps.                             *)
(***************************************************************************)
\* the tokens that begin with a capital letter, which is where
\* _SENTENCE_SPLIT lets a sentence begin and what _NOUNS_HINT_EN matches
CapitalizedWords == {"The", "Dog", "He", "They", "John"}

\* the positions at which a sentence of para ends: a full stop followed by a
\* capitalized token, and the end of the text
SentenceEnds(para) ==
    SelectSeq([i \in 1..Len(para) |-> i],
              LAMBDA i : \/ i = Len(para)
                         \/ para[i] = "." /\ para[i + 1] \in CapitalizedWords)

\* split_sentences(text), the regex splitting
split_sentences(para) ==
    LET ends == SentenceEnds(para)
    IN  [k \in 1..Len(ends) |->
            SubSeq(para, IF k = 1 THEN 1 ELSE ends[k - 1] + 1, ends[k])]

_PRONOUNS_EN ==
    {"he", "she", "it", "they", "him", "her", "them", "his", "its", "their"}

_CAPITALIZED_PRONOUNS_EN ==
    {"He", "She", "It", "They", "Him", "Her", "Them", "His", "Its", "Their",
     "The", "This", "That", "These", "Those", "There", "Here", "My", "Your",
     "Our", "We", "You", "I", "What", "Which", "Who", "How", "When", "Where",
     "Why", "And", "But", "Or", "So", "If", "As", "In", "On", "At", "To",
     "For", "Not", "No", "Yes"}

\* _NOUNS_HINT_EN.findall(context_text)
_NOUNS_HINT_EN(context_text) ==
    SelectSeq(context_text, LAMBDA tok : tok \in CapitalizedWords)

\* " ".join(sents[context_start:context_end]), the bounds counted from 0
RECURSIVE JoinSents(_, _, _)
JoinSents(sents, context_start, context_end) ==
    IF context_start >= context_end THEN <<>>
    ELSE sents[context_start + 1] \o JoinSents(sents, context_start + 1, context_end)

MaxOf(a, b) == IF a >= b THEN a ELSE b

MinOf(a, b) == IF a <= b THEN a ELSE b

\* [w for w in words if w in pronouns]
sent_pronouns(sent) == SelectSeq(FindWords(sent), LAMBDA w : w \in _PRONOUNS_EN)

\* nouns_in_context of sentence si of sents, si counted from 0
nouns_in_context(sents, si, w) ==
    SelectSeq(_NOUNS_HINT_EN(JoinSents(sents, MaxOf(0, si - w),
                                       MinOf(Len(sents), si + w + 1))),
              LAMBDA m : m \notin _CAPITALIZED_PRONOUNS_EN)

AtVeryStart == "appears at the very start with no prior antecedent"

AppearsEarly == "appears early with no clear antecedent in context"

CoreferenceFlag(pn, pi, si, sent, issue) ==
    [pronoun |-> pn, paragraph_index |-> pi, sentence_index |-> si,
     context |-> sent, issue |-> issue]

\* the body of the loop over the sentences, which flags the pronouns of any
\* sentence whose window holds no antecedent
FlagsOfSentence_any_position(sents, pi, si, w) ==
    LET pns == sent_pronouns(sents[si + 1])
    IN  IF pns = <<>> \/ nouns_in_context(sents, si, w) # <<>> THEN <<>>
        ELSE [k \in 1..Len(pns) |->
                 CoreferenceFlag(pns[k], pi, si, sents[si + 1],
                                 IF pi = 0 /\ si = 0 THEN AtVeryStart
                                 ELSE AppearsEarly)]

\* the body of the loop over the sentences: what sentence si of paragraph pi
\* appends to flags
FlagsOfSentence(sents, pi, si, w) ==
    LET pns == sent_pronouns(sents[si + 1])
    IN  IF pns = <<>> \/ nouns_in_context(sents, si, w) # <<>> THEN <<>>
        ELSE IF pi = 0 /\ si = 0
             THEN [k \in 1..Len(pns) |->
                      CoreferenceFlag(pns[k], pi, si, sents[si + 1], AtVeryStart)]
        ELSE IF pi = 0 /\ si <= 1
             THEN [k \in 1..Len(pns) |->
                      CoreferenceFlag(pns[k], pi, si, sents[si + 1], AppearsEarly)]
        ELSE <<>>

\* the flags of the sentences si.. of paragraph pi
RECURSIVE FlagsOfSentences(_, _, _, _)
FlagsOfSentences(sents, pi, si, w) ==
    IF si >= Len(sents) THEN <<>>
    ELSE FlagsOfSentence(sents, pi, si, w) \o FlagsOfSentences(sents, pi, si + 1, w)

\* the flags of the paragraphs pi..
RECURSIVE FlagsOfParagraphs(_, _, _)
FlagsOfParagraphs(paras, pi, w) ==
    IF pi >= Len(paras) THEN <<>>
    ELSE FlagsOfSentences(split_sentences(paras[pi + 1]), pi, 0, w)
            \o FlagsOfParagraphs(paras, pi + 1, w)

MaxFlags == 20

\* detect_coreference_flags(paragraphs, "en", window)
detect_coreference_flags(paras, w) ==
    LET flags == FlagsOfParagraphs(paras, 0, w)
    IN  SubSeq(flags, 1, MinOf(Len(flags), MaxFlags))

(***************************************************************************)
(* Readability (utils/heuristics.py).  A text is its sequence of tokens;   *)
(* a ratio rounded to d decimals is kept as the integer count of its last  *)
(* decimal.                                                                *)
(***************************************************************************)
\* re.findall(r'\b\w+\b', text)
WordsOf(txt) == SelectSeq(txt, IsWord)

\* count_words(text)
count_words(txt) == Len(WordsOf(txt))

\* len(w)
WordLen(w) == IF w = "poetry" THEN 6 ELSE 3

\* _count_syllables(word, language) of the words The, dog and poetry
_count_syllables(w, lang) ==
    IF lang = "ru"
    THEN (IF w = "poetry" THEN 3 ELSE 1)
    ELSE (IF w = "poetry" THEN 2 ELSE 1)

RECURSIVE SumOver(_, _, _)
SumOver(ws, lang, k) ==
    IF ws = <<>> THEN 0
    ELSE (IF k = "syllables" THEN _count_syllables(Head(ws), lang) ELSE WordLen(Head(ws)))
            + SumOver(Tail(ws), lang, k)

\* round(n / d, ...) counted in units of the last decimal kept: n is the
\* numerator already scaled to that unit; ties go to the even count
round(n, d) ==
    LET q == n \div d
        r == n % d
    IN  IF 2 * r < d THEN q
        ELSE IF 2 * r > d THEN q + 1
        ELSE IF q % 2 = 0 THEN q ELSE q + 1

None == [none |-> TRUE]

\* ReadabilityMetrics(), the defaults of the fields
ReadabilityMetrics ==
    [avg_sentence_length |-> 0, avg_word_length |-> 0, long_sentence_count |-> 0,
     very_long_sentence_count |-> 0, vocabulary_richness |-> 0,
     flesch_reading_ease |-> None]

LongSentence == 25

VeryLongSentence == 40

\* compute_readability with the score set for every language
compute_readability_any_language(txt, lang) ==
    LET sentences == split_sentences(txt)
        words == WordsOf(txt)
        word_count == Len(words)
        sentence_count == Len(sentences)
        total_syllables == SumOver(words, lang, "syllables")
        sent_lengths == [k \in 1..Len(sentences) |-> count_words(sentences[k])]
    IN  IF words = <<>> \/ sentences = <<>> THEN ReadabilityMetrics
        ELSE [avg_sentence_length |-> round(10 * word_count, sentence_count),
              avg_word_length |-> round(100 * SumOver(words, lang, "chars"), word_count),
              long_sentence_count |->
                  Len(SelectSeq(sent_lengths, LAMBDA sl : sl > LongSentence)),
              very_long_sentence_count |->
                  Len(SelectSeq(sent_lengths, LAMBDA sl : sl > VeryLongSentence)),
              vocabulary_richness |->
                  round(10000 * Cardinality({Lower(words[i]) : i \in 1..Len(words)}),
                        word_count),
              flesch_reading_ease |->
                  [none |-> FALSE,
                   tenths |-> round(206835 * sentence_count * word_count
                                       - 1015 * word_count * word_count
                                       - 84600 * total_syllables * sentence_count,
                                    100 * sentence_count * word_count)]]

\* compute_readability(text, language)
compute_readability(txt, lang) ==
    LET sentences == split_sentences(txt)
        words == WordsOf(txt)
        word_count == Len(words)
        sentence_count == Len(sentences)
        total_syllables == SumOver(words, lang, "syllables")
        sent_lengths == [k \in 1..Len(sentences) |-> count_words(sentences[k])]
    IN  IF words = <<>> \/ sentences = <<>> THEN ReadabilityMetrics
        ELSE [avg_sentence_length |-> round(10 * word_count, sentence_count),
              avg_word_length |-> round(100 * SumOver(words, lang, "chars"), word_count),
              long_sentence_count |->
                  Len(SelectSeq(sent_lengths, LAMBDA sl : sl > LongSentence)),
              very_long_sentence_count |->
                  Len(SelectSeq(sent_lengths, LAMBDA sl : sl > VeryLongSentence)),
              vocabulary_richness |->
                  round(10000 * Cardinality({Lower(words[i]) : i \in 1..Len(words)}),
                        word_count),
              flesch_reading_ease |->
                  IF lang = "en" /\ sentence_count > 0 /\ word_count > 0
                  THEN [none |-> FALSE,
                        tenths |-> round(206835 * sentence_count * word_count
                                            - 1015 * word_count * word_count
                                            - 84600 * total_syllables * sentence_count,
                                         100 * sentence_count * word_count)]
                  ELSE None]

NotAnalyzed == [by |-> "none"]

\* the default of the parameter window of detect_coreference_flags
DefaultWindow == 2

NoSettings == [none |-> TRUE]

\* no configuration is being exported
InitExportNone ==
    /\ settings = NoSettings
    /\ exported = NoSettings

\* no text is under analysis
InitHeuristics ==
    /\ paragraphs = <<>>
    /\ min_count = DefaultNgramMin
    /\ analysis = NotAnalyzed
    /\ window = DefaultWindow
    /\ language = "en"

(***************************************************************************)
(* The web layer (web/app.py).  _active_runs is the registry of runs by    *)
(* run id; every access to it is made with _active_runs_lock held and is   *)
(* one step.  workers holds the position of the worker thread of each run, *)
(* response the answer to the last cancel request.                         *)
(***************************************************************************)
RunIds == {"id1", "id2"}

Absent == [status |-> "absent"]

\* the stages progress_cb is called with, in the order of a run
ProgressStages ==
    <<<<"starting", 0>>, <<"deterministic_analysis", 10>>, <<"primary_analysis", 30>>,
      <<"audit_analysis", 60>>, <<"building_report", 85>>, <<"done", 100>>>>

NoWorker == [st |-> "none", k |-> 0]

NoResponse == [run_id |-> "", code |-> 0, body |-> ""]

\* analyze: the entry of a new run is registered and its thread is started
Analyze(run_id) ==
    /\ _active_runs[run_id] = Absent
    /\ workers[run_id] = NoWorker
    /\ _active_runs' = [_active_runs EXCEPT ![run_id] =
           [status |-> "running", progress |-> 0, stage |-> "starting",
            cancel |-> FALSE]]
    /\ workers' = [workers EXCEPT ![run_id] = [st |-> "running", k |-> 0]]
    /\ UNCHANGED response
    /\ UNCHANGED <<coerceVars, inputVars, runVars, chatVars, logVars, heurVars,
                   exportVars>>

\* cancel_run setting the flag of any entry it finds
cancel_run_unchecked(run_id) ==
    /\ IF _active_runs[run_id] # Absent
       THEN /\ _active_runs' = [_active_runs EXCEPT ![run_id] =
                   [c \in {"cancel"} |-> TRUE] @@ @]
            /\ response' = [run_id |-> run_id, code |-> 200, body |-> "cancelling"]
       ELSE /\ response' = [run_id |-> run_id, code |-> 404,
                            body |-> "Run not found or not running."]
            /\ UNCHANGED _active_runs
    /\ UNCHANGED workers
    /\ UNCHANGED <<coerceVars, inputVars, runVars, chatVars, logVars, heurVars,
                   exportVars>>

\* cancel_run
cancel_run(run_id) ==
    /\ IF _active_runs[run_id] # Absent /\ _active_runs[run_id].status = "running"
       THEN /\ _active_runs' = [_active_runs EXCEPT ![run_id].cancel = TRUE]
            /\ response' = [run_id |-> run_id, code |-> 200, body |-> "cancelling"]
       ELSE /\ response' = [run_id |-> run_id, code |-> 404,
                            body |-> "Run not found or not running."]
            /\ UNCHANGED _active_runs
    /\ UNCHANGED workers
    /\ UNCHANGED <<coerceVars, inputVars, runVars, chatVars, logVars, heurVars,
                   exportVars>>

\* progress_cb(stage, pct), called by the run in the worker thread
progress_cb(run_id) ==
    LET w == workers[run_id]
    IN  /\ w.st = "running"
        /\ w.k < Len(ProgressStages)
        /\ workers' = [workers EXCEPT ![run_id].k = w.k + 1]
        /\ _active_runs' =
              IF _active_runs[run_id] # Absent
              THEN [_active_runs EXCEPT ![run_id].stage = ProgressStages[w.k + 1][1],
                                        ![run_id].progress = ProgressStages[w.k + 1][2]]
              ELSE _active_runs
        /\ UNCHANGED response
        /\ UNCHANGED <<coerceVars, inputVars, runVars, chatVars, logVars, heurVars,
                   exportVars>>

\* cancel_check() read true by the run at one of its checks: the run raises
cancel_check(run_id) ==
    /\ workers[run_id].st = "running"
    /\ workers[run_id].k \in 1..3
    /\ _active_runs[run_id] # Absent
    /\ _active_runs[run_id].cancel
    /\ workers' = [workers EXCEPT ![run_id].st = "raised"]
    /\ UNCHANGED <<_active_runs, response>>
    /\ UNCHANGED <<coerceVars, inputVars, runVars, chatVars, logVars, heurVars,
                   exportVars>>

\* the run raises for another reason: its input or the service
RunRaises(run_id) ==
    /\ workers[run_id].st = "running"
    /\ workers[run_id].k < Len(ProgressStages)
    /\ workers' = [workers EXCEPT ![run_id].st = "raised"]
    /\ UNCHANGED <<_active_runs, response>>
    /\ UNCHANGED <<coerceVars, inputVars, runVars, chatVars, logVars, heurVars,
                   exportVars>>

\* the run has returned: the entry of the run is replaced
WorkerCompleted(run_id) ==
    /\ workers[run_id].st = "running"
    /\ workers[run_id].k = Len(ProgressStages)
    /\ _active_runs' = [_active_runs EXCEPT ![run_id] =
           [status |-> "completed", stage |-> "done", progress |-> 100,
            markdown |-> run_id, json_report |-> run_id]]
    /\ workers' = [workers EXCEPT ![run_id].st = "finished"]
    /\ UNCHANGED response
    /\ UNCHANGED <<coerceVars, inputVars, runVars, chatVars, logVars, heurVars,
                   exportVars>>

\* the except clause of the worker thread
WorkerError(run_id) ==
    /\ workers[run_id].st = "raised"
    /\ _active_runs' = [_active_runs EXCEPT ![run_id] =
           [status |-> "error", stage |-> "error", progress |-> 0,
            error |-> run_id]]
    /\ workers' = [workers EXCEPT ![run_id].st = "finished"]
    /\ UNCHANGED response
    /\ UNCHANGED <<coerceVars, inputVars, runVars, chatVars, logVars, heurVars,
                   exportVars>>

\* no run is registered
InitWebLayer ==
    /\ _active_runs = [r \in RunIds |-> Absent]
    /\ workers = [r \in RunIds |-> NoWorker]
    /\ response = NoResponse

(***************************************************************************)
(* The logger (logger.py).  logging.getLogger("prose-critique") is one     *)
(* object of the process: handlers and level are its handler list and its  *)
(* level, log_files the files of workspace/logs by run id, orchestrators   *)
(* the Orchestrator objects constructed so far.                            *)
(***************************************************************************)
Runs == {"run1", "run2"}

DEBUG == 10

INFO == 20

WARNING == 30

NOTSET == 0

\* the values of config.verbosity
Verbosities == {0, 1, 2}

NoOrchestrator == [constructed |-> FALSE]

NoFile == [exists |-> FALSE, records |-> <<>>]

StreamHandler == [kind |-> "stream"]

FileHandler(run_id) == [kind |-> "file", path |-> run_id]

\* {0: logging.WARNING, 1: logging.INFO}.get(verbosity, logging.DEBUG)
LevelOf(verbosity) ==
    IF verbosity = 0 THEN WARNING ELSE IF verbosity = 1 THEN INFO ELSE DEBUG

\* setup_logger("prose-critique", verbosity, run_id): the logger as it is
\* when it has handlers, else levelled and given a stream handler and the
\* handler of the file of the run, which opens the file
setup_logger(verbosity, run_id) ==
    IF handlers # <<>>
    THEN UNCHANGED <<handlers, level, log_files>>
    ELSE /\ level' = LevelOf(verbosity)
         /\ handlers' = <<StreamHandler, FileHandler(run_id)>>
         /\ log_files' = [log_files EXCEPT ![run_id].exists = TRUE]

\* Orchestrator(config, run_id, progress_cb, cancel_check)
NewOrchestrator(run_id, verbosity) ==
    /\ ~orchestrators[run_id].constructed
    /\ orchestrators' = [orchestrators EXCEPT ![run_id] =
           [constructed |-> TRUE, run_id |-> run_id, verbosity |-> verbosity,
            progress_cb |-> run_id, cancel_check |-> run_id,
            logger |-> "prose-critique", logged |-> 0]]
    /\ setup_logger(verbosity, run_id)
    /\ UNCHANGED <<coerceVars, inputVars, runVars, chatVars,
                   heurVars,
                   webVars, exportVars>>

\* the text of a file after the handlers hs have emitted record to it
Emitted(hs, f, record) ==
    IF \E i \in 1..Len(hs) : hs[i] = FileHandler(f)
    THEN [log_files[f] EXCEPT !.records = Append(@, record)]
    ELSE log_files[f]

\* self.logger.log(levelno, ...) in a run: the record passes the level of
\* the logger or is dropped, and every handler of the logger emits it
LogRecord(run_id, levelno) ==
    /\ orchestrators[run_id].constructed
    /\ orchestrators[run_id].logged < MaxRecords
    /\ orchestrators' = [orchestrators EXCEPT ![run_id].logged = @ + 1]
    /\ log_files' =
          IF levelno >= level
          THEN [f \in Runs |->
                   Emitted(handlers, f, [run |-> run_id, levelno |-> levelno])]
          ELSE log_files
    /\ UNCHANGED <<handlers, level, coerceVars, inputVars, runVars, chatVars,
                   heurVars,
                   webVars, exportVars>>

\* a process in which no Orchestrator has been constructed
InitLogger ==
    /\ orchestrators = [r \in Runs |-> NoOrchestrator]
    /\ handlers = <<>>
    /\ level = NOTSET
    /\ log_files = [r \in Runs |-> NoFile]

(***************************************************************************)
(* Orchestrator.run (orchestrator.py).  stage is the stage of the pipeline *)
(* the run has entered last; pc is the position of the run in its code.    *)
(***************************************************************************)
\* the client of the run calls chat as this caller
RunCaller == "c1"

\* input texts: white space and other characters
InputTexts == UNION {[1..n -> {Ws, Ch}] : n \in 0..(MaxInputChars + 1)}

RequirementTexts == {<<>>, <<Ws>>, <<Ch>>}

\* len(text) > self.config.max_input_chars
TooLong(t) == Len(t) > config.max_input_chars

\* not text
Blank_unstripped(t) == t = <<>>

\* not text.strip()
Blank(t) == Strip(t) = <<>>

ValueError(m) == [type |-> "ValueError", msg |-> [text |-> m]]

\* RuntimeError("Cancelled by user.")
Cancelled == [type |-> "RuntimeError", msg |-> [text |-> "Cancelled by user."]]

\* an exception that escapes the coercion of a reply
CoercionError(e) == [type |-> e, msg |-> [text |-> "coercion"]]

\* run_deterministic_analysis, as far as the run depends on it
run_deterministic_analysis(t) ==
    [computed |-> TRUE, language |-> "en", char_count |-> Len(t)]

NotComputed == [computed |-> FALSE]

\* generate_auto_requirements: a text of its own, never blank
generate_auto_requirements(det, t) == <<[k |-> "auto"]>>

\* build_primary_messages
build_primary_messages(t, lang, det, reqs) ==
    [kind |-> "primary", text |-> t, language |-> lang, requirements |-> reqs]

\* build_audit_messages given the dump of a fresh PrimaryAnalysis
build_audit_messages_of_default(t, lang, critique) ==
    [kind |-> "audit", text |-> t, language |-> lang,
     critique |-> DefaultPrimaryAnalysis]

\* build_audit_messages, given the dump of the primary analysis
build_audit_messages(t, lang, critique) ==
    [kind |-> "audit", text |-> t, language |-> lang, critique |-> critique]

NoResult == [none |-> TRUE]

InitLocals ==
    [deterministic |-> NotComputed, effective_requirements |-> <<>>,
     primary_analysis |-> NoResult, audit_result |-> NoResult, llm_calls |-> <<>>]

Running == [status |-> "running"]

\* the callback's events kept newest first
Progress_newest_first(name, pct) == <<<<name, pct>>>> \o progress

\* self._progress(stage, pct), pct in hundredths
Progress(name, pct) == Append(progress, <<name, pct>>)

\* raise e out of run
RaiseOut(e) ==
    /\ pc' = "raised"
    /\ outcome' = [status |-> "raised", error |-> e]

\* the validation at the head of run
Validate ==
    /\ pc = "start"
    /\ IF TooLong(text)
       THEN RaiseOut(ValueError("exceeds maximum")) /\ UNCHANGED progress
       ELSE IF Blank(text)
       THEN RaiseOut(ValueError("Input text is empty.")) /\ UNCHANGED progress
       ELSE /\ progress' = Progress("starting", 0)
            /\ pc' = "check_deterministic"
            /\ UNCHANGED outcome
    /\ UNCHANGED <<stage, cancel, locals, saved, chatVars, inputVars, logVars, heurVars, coerceVars,
                   webVars, exportVars>>

\* step 1: the cancel check, then the deterministic analysis starts
EnterDeterministic ==
    /\ pc = "check_deterministic"
    /\ IF cancel
       THEN RaiseOut(Cancelled) /\ UNCHANGED <<progress, stage>>
       ELSE /\ progress' = Progress("deterministic_analysis", 10)
            /\ stage' = "AnalyzingDeterministic"
            /\ pc' = "deterministic"
            /\ UNCHANGED outcome
    /\ UNCHANGED <<cancel, locals, saved, chatVars, inputVars, logVars, heurVars, coerceVars,
                   webVars, exportVars>>

\* run_deterministic_analysis returns; step 1b starts when the caller gave
\* no requirements
FinishDeterministic ==
    /\ pc = "deterministic"
    /\ IF Blank(requirements)
       THEN /\ progress' = Progress("generating_requirements", 20)
            /\ stage' = "GeneratingRequirements"
            /\ pc' = "generating_requirements"
       ELSE /\ pc' = "check_primary"
            /\ UNCHANGED <<progress, stage>>
    /\ locals' = [locals EXCEPT
                     !.deterministic = run_deterministic_analysis(text),
                     !.effective_requirements = requirements]
    /\ UNCHANGED <<cancel, outcome, saved, chatVars, inputVars, logVars, heurVars, coerceVars,
                   webVars, exportVars>>

\* generate_auto_requirements returns
GenerateRequirements ==
    /\ pc = "generating_requirements"
    /\ locals' = [locals EXCEPT !.effective_requirements =
                     generate_auto_requirements(locals.deterministic, text)]
    /\ pc' = "check_primary"
    /\ UNCHANGED <<stage, cancel, progress, outcome, saved, chatVars, inputVars, logVars, heurVars,
                   coerceVars,
                   webVars, exportVars>>

\* step 2: the cancel check, then run_primary_analysis calls chat
EnterPrimary ==
    /\ pc = "check_primary"
    /\ IF cancel
       THEN RaiseOut(Cancelled) /\ UNCHANGED <<progress, stage, chat>>
       ELSE /\ progress' = Progress("primary_analysis", 30)
            /\ stage' = "PrimaryCritique"
            /\ pc' = "primary"
            /\ chat' = [chat EXCEPT ![RunCaller] =
                   NewCall("primary", "primary_analysis",
                           build_primary_messages(text, locals.deterministic.language,
                               locals.deterministic, locals.effective_requirements),
                           TRUE)]
            /\ UNCHANGED outcome
    /\ UNCHANGED <<cancel, locals, saved, call_log, cache, written, inputVars, logVars, heurVars,
                   coerceVars,
                   webVars, exportVars>>

\* the audit entered whatever enable_audit says
AfterPrimary_always_audit == "check_audit"

\* the step after the primary call when it has returned
AfterPrimary == IF config.enable_audit THEN "check_audit" ELSE "build_report"

\* what awaiting the chat call whose frame is f gives its agent: the error
\* chat raised, or the text it returned as parse coerces it
Awaited(f, parsed) ==
    IF f.st = "raised" THEN [raised |-> TRUE, error |-> ChatError(f)]
    ELSE IF parsed.raised THEN [raised |-> TRUE, error |-> CoercionError(parsed.exc)]
    ELSE [raised |-> FALSE, val |-> parsed.val, meta |-> f.meta]

\* run_primary_analysis, from the end of its chat call
run_primary_analysis(f) == Awaited(f, _parse_primary_response(f.text))

\* run_audit with the failure of its chat call caught and replaced by the
\* default result
run_audit_lenient(f) ==
    IF f.st = "raised"
    THEN [raised |-> FALSE, val |-> DefaultAuditResult, meta |-> [cached |-> FALSE]]
    ELSE Awaited(f, _parse_audit_response(f.text))

\* run_audit, from the end of its chat call
run_audit(f) == Awaited(f, _parse_audit_response(f.text))

\* chat returns to run_primary_analysis or raises through it; the reply is
\* parsed and coerced, and an exception leaves run
PrimaryReturn ==
    LET f == chat[RunCaller]
        r == run_primary_analysis(f)
    IN  /\ pc = "primary"
        /\ f.st \in {"returned", "raised"}
        /\ IF r.raised THEN RaiseOut(r.error) /\ UNCHANGED locals
           ELSE /\ locals' = [locals EXCEPT !.primary_analysis = r.val,
                                            !.llm_calls = <<r.meta>>]
                /\ pc' = AfterPrimary
                /\ UNCHANGED outcome
        /\ UNCHANGED <<stage, cancel, progress, saved, chatVars, inputVars, logVars, heurVars,
                       coerceVars,
                   webVars, exportVars>>

\* step 3: the cancel check, then run_audit calls chat
EnterAudit ==
    /\ pc = "check_audit"
    /\ IF cancel
       THEN RaiseOut(Cancelled) /\ UNCHANGED <<progress, stage, chat>>
       ELSE /\ progress' = Progress("audit_analysis", 60)
            /\ stage' = "AuditCritique"
            /\ pc' = "audit"
            /\ chat' = [chat EXCEPT ![RunCaller] =
                   NewCall("audit", "audit_analysis",
                           build_audit_messages(text, locals.deterministic.language,
                                                locals.primary_analysis),
                           TRUE)]
            /\ UNCHANGED outcome
    /\ UNCHANGED <<cancel, locals, saved, call_log, cache, written, inputVars, logVars, heurVars,
                   coerceVars,
                   webVars, exportVars>>

\* chat returns to run_audit or raises through it
AuditReturn ==
    LET f == chat[RunCaller]
        r == run_audit(f)
    IN  /\ pc = "audit"
        /\ f.st \in {"returned", "raised"}
        /\ IF r.raised THEN RaiseOut(r.error) /\ UNCHANGED locals
           ELSE /\ locals' = [locals EXCEPT !.audit_result = r.val,
                                            !.llm_calls = Append(@, r.meta)]
                /\ pc' = "build_report"
                /\ UNCHANGED outcome
        /\ UNCHANGED <<stage, cancel, progress, saved, chatVars, inputVars, logVars, heurVars,
                       coerceVars,
                   webVars, exportVars>>

\* CritiqueReport(...) given the requirements the primary call was given
Report_effective_requirements ==
    [input_text |-> text, input_char_count |-> Len(text),
     requirements |-> locals.effective_requirements,
     generated_prompt |-> [text |-> text,
                           requirements |-> locals.effective_requirements],
     language |-> locals.deterministic.language,
     deterministic |-> locals.deterministic,
     primary_analysis |-> locals.primary_analysis,
     audit |-> locals.audit_result, llm_calls |-> locals.llm_calls]

\* CritiqueReport(...)
Report ==
    [input_text |-> text, input_char_count |-> Len(text),
     requirements |-> requirements,
     generated_prompt |-> [text |-> text,
                           requirements |-> locals.effective_requirements],
     language |-> locals.deterministic.language,
     deterministic |-> locals.deterministic,
     primary_analysis |-> locals.primary_analysis,
     audit |-> locals.audit_result, llm_calls |-> locals.llm_calls]

\* step 4 preceded by a cancel check
EnterBuildReport_checked ==
    /\ pc = "build_report"
    /\ IF cancel
       THEN RaiseOut(Cancelled) /\ UNCHANGED <<progress, stage>>
       ELSE /\ progress' = Progress("building_report", 85)
            /\ stage' = "BuildingReport"
            /\ pc' = "persist"
            /\ UNCHANGED outcome
    /\ UNCHANGED <<cancel, locals, saved, chatVars, inputVars, logVars, heurVars,
                   coerceVars,
                   webVars, exportVars>>

\* step 4 starts
EnterBuildReport ==
    /\ pc = "build_report"
    /\ progress' = Progress("building_report", 85)
    /\ stage' = "BuildingReport"
    /\ pc' = "persist"
    /\ UNCHANGED <<cancel, locals, outcome, saved, chatVars, inputVars, logVars, heurVars,
                   coerceVars,
                   webVars, exportVars>>

\* the end of run with the failure of save_run left to leave run
FinishRun_save_or_raise ==
    /\ pc = "persist"
    /\ \/ /\ saved' = saved \cup {Report}
          /\ progress' = Progress("done", 100)
          /\ stage' = "Done"
          /\ pc' = "returned"
          /\ outcome' = [status |-> "returned", report |-> Report]
       \/ /\ RaiseOut([type |-> "OSError", msg |-> [text |-> "save_run"]])
          /\ UNCHANGED <<saved, progress, stage>>
    /\ UNCHANGED <<cancel, locals, chatVars, inputVars, logVars, heurVars, coerceVars,
                   webVars, exportVars>>

\* the report is built and rendered, save_run persists it or fails with a
\* warning, and run returns
FinishRun ==
    /\ pc = "persist"
    /\ \/ saved' = saved \cup {Report}
       \/ UNCHANGED saved
    /\ progress' = Progress("done", 100)
    /\ stage' = "Done"
    /\ pc' = "returned"
    /\ outcome' = [status |-> "returned", report |-> Report]
    /\ UNCHANGED <<cancel, locals, chatVars, inputVars, logVars, heurVars, coerceVars,
                   webVars, exportVars>>

\* another thread requests the cancellation of the run
Cancel ==
    /\ pc \notin {"returned", "raised"}
    /\ ~cancel
    /\ cancel' = TRUE
    /\ UNCHANGED <<pc, stage, progress, locals, outcome, saved, chatVars,
                   inputVars, logVars, heurVars, coerceVars,
                   webVars, exportVars>>

\* a step of the chat call of the run
RunChat ==
    /\ pc \in {"primary", "audit"}
    /\ ChatStep(RunCaller)
    /\ UNCHANGED <<runVars, inputVars, logVars, heurVars, coerceVars,
                   webVars, exportVars>>

\* the primary call of the run as an earlier run of the same text made it
PrimaryKey(cfg, t, reqs) ==
    _cache_key(cfg.primary.model,
               build_primary_messages(t, "en", run_deterministic_analysis(t),
                   IF Strip(reqs) = <<>>
                   THEN generate_auto_requirements(run_deterministic_analysis(t), t)
                   ELSE reqs),
               cfg.primary.temperature)

InitRun ==
    /\ config \in Configs
    /\ text \in InputTexts
    /\ requirements \in RequirementTexts
    /\ pc = "start"
    /\ stage = "Validating"
    /\ cancel = FALSE
    /\ progress = <<>>
    /\ locals = InitLocals
    /\ outcome = Running
    /\ saved = {}

NotCoerced == [by |-> "none"]

Init ==
    /\ InitLogger
    /\ InitExportNone
    /\ InitWebLayer
    /\ InitHeuristics
    /\ InitRun
    /\ InitChat
    /\ cache \in {<<>>} \cup {PrimaryKey(config, text, requirements) :> t :
                                 t \in {<<J(GoodReply)>>, <<>>}}
    /\ reply = JNull
    /\ raw = <<>>
    /\ coerced = NotCoerced

Next ==
    \/ Validate
    \/ EnterDeterministic
    \/ FinishDeterministic
    \/ GenerateRequirements
    \/ EnterPrimary
    \/ RunChat
    \/ PrimaryReturn
    \/ EnterAudit
    \/ AuditReturn
    \/ EnterBuildReport
    \/ FinishRun
    \/ Cancel

Spec == Init /\ [][Next]_vars

(***************************************************************************)
(* The coercion of one parsed reply, on its own.                           *)
(***************************************************************************)
InitCoerce ==
    /\ InitLogger
    /\ InitExportNone
    /\ InitWebLayer
    /\ InitHeuristics
    /\ reply \in Replies
    /\ raw = <<>>
    /\ coerced = NotCoerced
    /\ config = CHOOSE cfg \in Configs : TRUE
    /\ text = <<>>
    /\ requirements = <<>>
    /\ pc = "start"
    /\ stage = "Validating"
    /\ cancel = FALSE
    /\ progress = <<>>
    /\ locals = InitLocals
    /\ outcome = Running
    /\ saved = {}
    /\ InitChat
    /\ cache = <<>>

\* _dict_to_primary(reply)
DictToPrimary ==
    /\ coerced = NotCoerced
    /\ coerced' = [by |-> "_dict_to_primary", res |-> _dict_to_primary(reply)]
    /\ UNCHANGED <<reply, raw, inputVars, logVars, heurVars, runVars, chatVars,
                   webVars, exportVars>>

\* _dict_to_audit(reply)
DictToAudit ==
    /\ coerced = NotCoerced
    /\ coerced' = [by |-> "_dict_to_audit", res |-> _dict_to_audit(reply)]
    /\ UNCHANGED <<reply, raw, inputVars, logVars, heurVars, runVars, chatVars,
                   webVars, exportVars>>

NextCoerce == DictToPrimary \/ DictToAudit

SpecCoerce == InitCoerce /\ [][NextCoerce]_vars

(***************************************************************************)
(* The parsing of one reply text, on its own: extract_json and the two     *)
(* parsers of the agents.  The texts are a JSON value, bare or in a code   *)
(* block, between some prose and some trailing text.                       *)
(***************************************************************************)
\* a wrapper {"response": inner}
Wrapper(inner) == JObj("response" :> inner)

ParseObjects ==
    {EmptyObj, GoodReply,
     JObj("text_overview" :> JObj("tone" :> JStr("x"))),
     JObj("local_issues" :> JList(<<JObj("severity" :> JStr("major"))>>)),
     JObj("global_issues" :> JList(<<JObj("severity" :> JStr("major"))>>)),
     JObj("audit_verdict" :> JStr("mixed"))}

ParseValues ==
    ParseObjects
    \cup {Wrapper(o) : o \in ParseObjects}
    \cup {Wrapper(JStr("x")), Wrapper(Wrapper(GoodReply)),
          JObj(("response" :> GoodReply) @@ ("note" :> JStr("x"))),
          JNull, JNum(1), JList(<<JNum(1), GoodReply, EmptyObj>>)}

\* what may precede the reply proper: nothing, prose, prose with braces
Preambles ==
    {<<>>, <<Ws>>, <<Ch, Ws>>, <<LBrace, RBrace, Ws>>, <<LBrace, Ws>>, <<RBrace, Ch>>}

\* what may follow it: nothing, prose, and a ```json block of its own
Postscripts == {<<>>, <<Ws>>, <<Ch>>, <<FenceJson, J(JObj("summary" :> JStr("x"))), Fence>>}

Bare(v) == <<J(v)>>

FencedJson(v) == <<FenceJson, J(v), Fence>>

Fenced(v) == <<Fence, J(v), Fence>>

ParseTexts ==
    {<<>>, <<Ws>>, <<Ch, Ch>>, <<LBrace, Ch, RBrace>>, <<Fence, Ch, Fence>>}
    \cup {pre \o body \o post :
             pre \in Preambles, post \in Postscripts,
             body \in UNION {{Bare(v), FencedJson(v), Fenced(v)} : v \in ParseValues}}

InitParse ==
    /\ InitLogger
    /\ InitExportNone
    /\ InitWebLayer
    /\ InitHeuristics
    /\ raw \in ParseTexts
    /\ reply = JNull
    /\ coerced = NotCoerced
    /\ config = CHOOSE cfg \in Configs : TRUE
    /\ text = <<>>
    /\ requirements = <<>>
    /\ pc = "start"
    /\ stage = "Validating"
    /\ cancel = FALSE
    /\ progress = <<>>
    /\ locals = InitLocals
    /\ outcome = Running
    /\ saved = {}
    /\ InitChat
    /\ cache = <<>>

\* extract_json(raw)
ExtractJson ==
    /\ coerced = NotCoerced
    /\ coerced' = [by |-> "extract_json", res |-> extract_json(raw)]
    /\ UNCHANGED <<reply, raw, inputVars, logVars, heurVars, runVars, chatVars,
                   webVars, exportVars>>

\* _parse_primary_response(raw)
ParsePrimary ==
    /\ coerced = NotCoerced
    /\ coerced' = [by |-> "_parse_primary_response",
                   res |-> _parse_primary_response(raw)]
    /\ UNCHANGED <<reply, raw, inputVars, logVars, heurVars, runVars, chatVars,
                   webVars, exportVars>>

\* _parse_audit_response(raw)
ParseAudit ==
    /\ coerced = NotCoerced
    /\ coerced' = [by |-> "_parse_audit_response",
                   res |-> _parse_audit_response(raw)]
    /\ UNCHANGED <<reply, raw, inputVars, logVars, heurVars, runVars, chatVars,
                   webVars, exportVars>>

NextParse == ExtractJson \/ ParsePrimary \/ ParseAudit

SpecParse == InitParse /\ [][NextParse]_vars

(***************************************************************************)
(* Concurrent callers of chat in one process, each with a client of its    *)
(* own, sharing the cache directory.                                       *)
(***************************************************************************)
CallMessages == {[kind |-> "m1"]}

\* a caller calls chat, once
StartCall(c) ==
    /\ chat[c].st = "idle"
    /\ \E role \in Roles, m \in CallMessages, json_mode \in BOOLEAN :
          chat' = [chat EXCEPT ![c] = NewCall(role, "p", m, json_mode)]
    /\ UNCHANGED <<call_log, cache, written, runVars, inputVars, logVars, heurVars, coerceVars,
                   webVars, exportVars>>

CallerChat(c) ==
    /\ ChatStep(c)
    /\ UNCHANGED <<runVars, inputVars, logVars, heurVars, coerceVars,
                   webVars, exportVars>>

InitCache ==
    /\ InitLogger
    /\ InitExportNone
    /\ InitWebLayer
    /\ InitHeuristics
    /\ config \in UNION {{[cfg EXCEPT !.audit = a] :
                               a \in {cfg.audit} \cup AuditOnPrimaryModel} :
                           cfg \in {x \in Configs :
                                       /\ x.enable_audit
                                       /\ x.primary.retries <= MaxConcurrentRetries
                                       /\ x.audit.retries = 0}}
    /\ text = <<>>
    /\ requirements = <<>>
    /\ pc = "start"
    /\ stage = "Validating"
    /\ cancel = FALSE
    /\ progress = <<>>
    /\ locals = InitLocals
    /\ outcome = Running
    /\ saved = {}
    /\ InitChat
    /\ cache = <<>>
    /\ reply = JNull
    /\ raw = <<>>
    /\ coerced = NotCoerced

NextCache == \E c \in Callers : StartCall(c) \/ CallerChat(c)

SpecCache == InitCache /\ [][NextCache]_vars

(***************************************************************************)
(* Two Orchestrators constructed in one process, each logging its records. *)
(***************************************************************************)
InitLog ==
    /\ InitLogger
    /\ InitExportNone
    /\ InitWebLayer
    /\ InitHeuristics
    /\ config = CHOOSE cfg \in Configs : TRUE
    /\ text = <<>>
    /\ requirements = <<>>
    /\ pc = "start"
    /\ stage = "Validating"
    /\ cancel = FALSE
    /\ progress = <<>>
    /\ locals = InitLocals
    /\ outcome = Running
    /\ saved = {}
    /\ InitChat
    /\ cache = <<>>
    /\ reply = JNull
    /\ raw = <<>>
    /\ coerced = NotCoerced

NextLog ==
    \E r \in Runs :
        \/ \E v \in Verbosities : NewOrchestrator(r, v)
        \/ \E l \in {DEBUG, INFO, WARNING} : LogRecord(r, l)

SpecLog == InitLog /\ [][NextLog]_vars

(***************************************************************************)
(* The repetition passes and their aggregation applied to one list of      *)
(* paragraphs.                                                             *)
(***************************************************************************)
HeurTokens == {"The", "dog", "cat"}

ParagraphTexts == UNION {[1..n -> HeurTokens] : n \in 0..MaxWords}

\* the paragraphs of test_ngram_repetition
ExampleParagraphs ==
    <<<<"The", "big", "red", "dog", "ran", "fast", ".">>,
      <<"The", "big", "red", "cat", "sat", "still", ".">>,
      <<"The", "big", "red", "bird", "flew", "high", ".">>,
      <<"The", "big", "red", "fish", "swam", "deep", ".">>>>

\* a paragraph of more distinct words than either pass returns
LongParagraph ==
    <<"w01", "w02", "w03", "w04", "w05", "w06", "w07", "w08", "w09",
      "w10", "w11", "w12", "w13", "w14", "w15", "w16", "w17", "w18",
      "w19", "w20", "w21", "w22", "w23", "w24", "w25", "w26", "w27",
      "w28", "w29", "w30", "w31", "w32">>

LongParagraphs == [i \in 1..5 |-> LongParagraph]

\* a word of fewer than three letters, five times
ShortWordParagraphs == <<<<"ox", "ox", "ox">>, <<"Dog", "ox", "ox", ",", "dog">>>>

ParagraphLists ==
    UNION {[1..n -> ParagraphTexts] : n \in 0..MaxParagraphs}
        \cup {ExampleParagraphs, LongParagraphs, ShortWordParagraphs}

MinCounts == {1, DefaultNgramMin, DefaultWordMin}

InitHeur ==
    /\ paragraphs \in ParagraphLists
    /\ min_count \in MinCounts
    /\ analysis = NotAnalyzed
    /\ window = DefaultWindow
    /\ language = "en"
    /\ InitLogger
    /\ InitExportNone
    /\ InitWebLayer
    /\ config = CHOOSE cfg \in Configs : TRUE
    /\ text = <<>>
    /\ requirements = <<>>
    /\ pc = "start"
    /\ stage = "Validating"
    /\ cancel = FALSE
    /\ progress = <<>>
    /\ locals = InitLocals
    /\ outcome = Running
    /\ saved = {}
    /\ InitChat
    /\ cache = <<>>
    /\ reply = JNull
    /\ raw = <<>>
    /\ coerced = NotCoerced

\* detect_repetitions(paragraphs, min_count=min_count)
DetectRepetitions ==
    /\ analysis = NotAnalyzed
    /\ analysis' = [by |-> "detect_repetitions",
                    res |-> detect_repetitions(paragraphs, min_count,
                                               DefaultNgramSizes)]
    /\ UNCHANGED <<paragraphs, min_count, window, language, coerceVars, inputVars, runVars, chatVars,
                   logVars,
                   webVars, exportVars>>

\* detect_word_repetitions(paragraphs, min_count=min_count)
DetectWordRepetitions ==
    /\ analysis = NotAnalyzed
    /\ analysis' = [by |-> "detect_word_repetitions",
                    res |-> detect_word_repetitions(paragraphs, min_count)]
    /\ UNCHANGED <<paragraphs, min_count, window, language, coerceVars, inputVars, runVars, chatVars,
                   logVars,
                   webVars, exportVars>>

\* the repetitions of run_deterministic_analysis
AggregateRepetitions ==
    /\ analysis = NotAnalyzed
    /\ analysis' = [by |-> "run_deterministic_analysis",
                    res |-> deduped_reps(paragraphs)]
    /\ UNCHANGED <<paragraphs, min_count, window, language, coerceVars, inputVars, runVars, chatVars,
                   logVars,
                   webVars, exportVars>>

NextHeur == DetectRepetitions \/ DetectWordRepetitions \/ AggregateRepetitions

SpecHeur == InitHeur /\ [][NextHeur]_vars

(***************************************************************************)
(* detect_coreference_flags applied to the paragraphs of a document.       *)
(***************************************************************************)
MaxSentences == 4

MaxFollowingSentences == 2

\* a pronoun and no noun; a noun; neither; a noun after a pronoun
Sentences ==
    {<<"He", "ran", ".">>, <<"John", "ran", ".">>,
     <<"The", "sky", "fell", ".">>, <<"He", "met", "John", ".">>}

RECURSIVE Concat(_)
Concat(seqs) == IF seqs = <<>> THEN <<>> ELSE Head(seqs) \o Concat(Tail(seqs))

ParagraphsOf(n) == {Concat(ss) : ss \in UNION {[1..k -> Sentences] : k \in 1..n}}

\* a sentence of several pronouns, and one of more pronouns than MaxFlags
TwoPronouns == <<"They", "saw", "it", ".">>

ManyPronouns == <<"They">> \o [i \in 1..MaxFlags |-> "it"] \o <<".">>

CorefDocuments ==
    {<<>>, <<TwoPronouns>>, <<ManyPronouns>>, <<ManyPronouns \o TwoPronouns>>,
     <<TwoPronouns \o <<"He", "ran", ".">>, TwoPronouns>>}
        \cup {<<p>> : p \in ParagraphsOf(MaxSentences)}
        \cup {<<p, q>> : p \in ParagraphsOf(MaxSentences),
                         q \in ParagraphsOf(MaxFollowingSentences)}

Windows == {1, DefaultWindow}

InitCoref ==
    /\ paragraphs \in CorefDocuments
    /\ window \in Windows
    /\ min_count = DefaultNgramMin
    /\ analysis = NotAnalyzed
    /\ language = "en"
    /\ InitLogger
    /\ InitExportNone
    /\ InitWebLayer
    /\ config = CHOOSE cfg \in Configs : TRUE
    /\ text = <<>>
    /\ requirements = <<>>
    /\ pc = "start"
    /\ stage = "Validating"
    /\ cancel = FALSE
    /\ progress = <<>>
    /\ locals = InitLocals
    /\ outcome = Running
    /\ saved = {}
    /\ InitChat
    /\ cache = <<>>
    /\ reply = JNull
    /\ raw = <<>>
    /\ coerced = NotCoerced

\* detect_coreference_flags(paragraphs, window=window)
DetectCoreference ==
    /\ analysis = NotAnalyzed
    /\ analysis' = [by |-> "detect_coreference_flags",
                    res |-> detect_coreference_flags(paragraphs, window)]
    /\ UNCHANGED <<paragraphs, min_count, window, language, coerceVars, inputVars,
                   runVars, chatVars, logVars, webVars, exportVars>>

NextCoref == DetectCoreference

SpecCoref == InitCoref /\ [][NextCoref]_vars

(***************************************************************************)
(* compute_readability applied to a text in a language.                    *)
(***************************************************************************)
MaxTextSentences == 3

\* the numbers of words of a sentence, on either side of the two thresholds
SentenceLengths ==
    {1, LongSentence, LongSentence + 1, VeryLongSentence, VeryLongSentence + 1}

\* a sentence of n words that begins with first
SentenceOf(first, n) == <<first>> \o [i \in 1..(n - 1) |-> "dog"] \o <<".">>

\* sentences that begin with a capital or not, and one of a longer word
ReadSentences ==
    {SentenceOf(first, n) : first \in {"The", "dog"}, n \in SentenceLengths}
        \cup {<<"The", "poetry", ".">>}

\* texts with no word, and the texts of up to MaxTextSentences sentences
Texts ==
    {<<>>, <<".">>, <<".", ".", ".">>}
        \cup {Concat(ss) : ss \in UNION {[1..k -> ReadSentences] : k \in 1..MaxTextSentences}}

Languages == {"en", "ru", "de"}

InitRead ==
    /\ paragraphs \in {<<t>> : t \in Texts}
    /\ language \in Languages
    /\ window = DefaultWindow
    /\ min_count = DefaultNgramMin
    /\ analysis = NotAnalyzed
    /\ InitLogger
    /\ InitExportNone
    /\ InitWebLayer
    /\ config = CHOOSE cfg \in Configs : TRUE
    /\ text = <<>>
    /\ requirements = <<>>
    /\ pc = "start"
    /\ stage = "Validating"
    /\ cancel = FALSE
    /\ progress = <<>>
    /\ locals = InitLocals
    /\ outcome = Running
    /\ saved = {}
    /\ InitChat
    /\ cache = <<>>
    /\ reply = JNull
    /\ raw = <<>>
    /\ coerced = NotCoerced

\* compute_readability(text, language=language), the text held as the one
\* element of paragraphs
ComputeReadability ==
    /\ analysis = NotAnalyzed
    /\ analysis' = [by |-> "compute_readability",
                    res |-> compute_readability(paragraphs[1], language)]
    /\ UNCHANGED <<paragraphs, min_count, window, language, coerceVars, inputVars,
                   runVars, chatVars, logVars, webVars, exportVars>>

NextRead == ComputeReadability

SpecRead == InitRead /\ [][NextRead]_vars

(***************************************************************************)
(* The export of the configuration (config.py).  A secret is the sequence  *)
(* of its characters; the export is a JSON object.                         *)
(***************************************************************************)
_SECRET_KEYS == {"api_key", "openai_api_key", "litellm_api_key"}

Keep == 4

\* redact(value)
redact(value) ==
    IF value = <<>> \/ Len(value) <= Keep THEN <<"*", "*", "*">>
    ELSE [i \in 1..(Len(value) - Keep) |-> "*"]
            \o SubSeq(value, Len(value) - Keep + 1, Len(value))

\* redact_dict without the descent into nested dicts
redact_dict_top_level(d) ==
    JObj([k \in DOMAIN d.o |->
             IF k \in _SECRET_KEYS /\ d.o[k].t = "str" /\ d.o[k].s # <<>>
             THEN JStr(redact(d.o[k].s))
             ELSE d.o[k]])

\* redact_dict(d)
RECURSIVE redact_dict(_)
redact_dict(d) ==
    JObj([k \in DOMAIN d.o |->
             IF IsDict(d.o[k]) THEN redact_dict(d.o[k])
             ELSE IF k \in _SECRET_KEYS /\ d.o[k].t = "str" /\ d.o[k].s # <<>>
                  THEN JStr(redact(d.o[k].s))
                  ELSE d.o[k]])

JBool(b) == [t |-> "bool", b |-> b]

\* asdict(ModelConfig)
asdict_model(m) ==
    JObj([model |-> JStr(m.model), temperature |-> JStr(m.temperature),
          top_p |-> JStr(m.top_p), max_tokens |-> JNum(m.max_tokens),
          timeout |-> JNum(m.timeout), retries |-> JNum(m.retries)])

\* PipelineConfig.to_dict(safe)
to_dict(self, safe) ==
    LET d == JObj([max_input_chars |-> JNum(self.max_input_chars),
                   max_report_chars |-> JNum(self.max_report_chars),
                   models |-> JObj([primary |-> asdict_model(self.primary),
                                    audit |-> asdict_model(self.audit)]),
                   provider |-> JStr(self.provider),
                   litellm |-> JObj([base_url |-> JStr(self.litellm.base_url),
                                     api_key |-> JStr(self.litellm.api_key)]),
                   openai_api_key |-> JStr(self.openai_api_key),
                   enable_audit |-> JBool(self.enable_audit),
                   enable_cache |-> JBool(self.enable_cache),
                   verbosity |-> JNum(self.verbosity),
                   store_prompts |-> JBool(self.store_prompts),
                   redact_secrets |-> JBool(self.redact_secrets)])
    IN  IF safe /\ self.redact_secrets THEN redact_dict(d) ELSE d

MaxSecretLen == 6

MaxNestedSecretLen == 5

SecretChars == {"k", "*"}

SecretsUpTo(n) == UNION {[1..m -> SecretChars] : m \in 0..n}

\* PipelineConfig with its defaults, the two keys and the switch varying
PipelineConfigs ==
    [max_input_chars : {8192}, max_report_chars : {65536},
     primary : [model : {"gpt-4o"}, temperature : {"0.3"}, top_p : {"1.0"},
                max_tokens : {16384}, timeout : {120}, retries : {2}],
     audit : [model : {"gpt-4o-mini"}, temperature : {"0.2"}, top_p : {"1.0"},
              max_tokens : {8192}, timeout : {90}, retries : {2}],
     provider : {"openai"},
     litellm : [base_url : {"", "http://localhost:4000"},
                api_key : SecretsUpTo(MaxNestedSecretLen)],
     openai_api_key : SecretsUpTo(MaxSecretLen),
     enable_audit : {TRUE}, enable_cache : {FALSE}, verbosity : {1},
     store_prompts : {FALSE}, redact_secrets : BOOLEAN]

InitExport ==
    /\ settings \in PipelineConfigs
    /\ exported = NoSettings
    /\ InitLogger
    /\ InitHeuristics
    /\ InitWebLayer
    /\ config = CHOOSE cfg \in Configs : TRUE
    /\ text = <<>>
    /\ requirements = <<>>
    /\ pc = "start"
    /\ stage = "Validating"
    /\ cancel = FALSE
    /\ progress = <<>>
    /\ locals = InitLocals
    /\ outcome = Running
    /\ saved = {}
    /\ InitChat
    /\ cache = <<>>
    /\ reply = JNull
    /\ raw = <<>>
    /\ coerced = NotCoerced

\* settings.to_dict(safe=safe)
ToDict(safe) ==
    /\ exported = NoSettings
    /\ exported' = [safe |-> safe, d |-> to_dict(settings, safe)]
    /\ UNCHANGED <<settings, coerceVars, inputVars, runVars, chatVars, logVars,
                   heurVars, webVars>>

NextExport == \E safe \in BOOLEAN : ToDict(safe)

SpecExport == InitExport /\ [][NextExport]_vars

(***************************************************************************)
(* The request handlers of the web layer and the worker threads of two     *)
(* runs, interleaved.                                                      *)
(***************************************************************************)
\* the variables of the other specifications at rest
RestForWeb ==
    /\ InitLogger
    /\ InitExportNone
    /\ InitHeuristics
    /\ config = CHOOSE cfg \in Configs : TRUE
    /\ text = <<>>
    /\ requirements = <<>>
    /\ pc = "start"
    /\ stage = "Validating"
    /\ cancel = FALSE
    /\ progress = <<>>
    /\ locals = InitLocals
    /\ outcome = Running
    /\ saved = {}
    /\ InitChat
    /\ cache = <<>>
    /\ reply = JNull
    /\ raw = <<>>
    /\ coerced = NotCoerced

InitWeb == InitWebLayer /\ RestForWeb

NextWeb ==
    \E r \in RunIds :
        \/ Analyze(r)
        \/ cancel_run(r)
        \/ progress_cb(r)
        \/ cancel_check(r)
        \/ RunRaises(r)
        \/ WorkerCompleted(r)
        \/ WorkerError(r)

SpecWeb == InitWeb /\ [][NextWeb]_vars

(***************************************************************************)
(* The defaults models.py declares for the items of each list field, with  *)
(* zero for an index that has no declared default, and the allowed set and *)
(* fallback of each enum-like field.                                        *)
(***************************************************************************)
ItemDefaults(f) ==
    CASE f = "structural_outline" ->
           [paragraph_index |-> 0, intent |-> "", summary |-> ""]
      [] f = "local_issues" ->
           [paragraph_index |-> 0, sentence |-> "", issue_type |-> "",
            severity |-> "minor", description |-> "", suggestion |-> ""]
      [] f = "global_issues" ->
           [category |-> "other", severity |-> "minor", description |-> "",
            evidence |-> ""]
      [] f = "cliche_detection" ->
           [phrase |-> "", location |-> "", suggestion |-> ""]
      [] f = "reader_questions" ->
           [question |-> "", location |-> "", type |-> "unclear_reference"]
      [] f = "improvement_suggestions" ->
           [category |-> "", suggestion |-> "", priority |-> "moderate"]
      [] f = "disagreements" ->
           [claim |-> "", issue |-> "", evidence |-> "", severity |-> "moderate"]
      [] f = "missed_issues" ->
           [description |-> "", evidence |-> "", severity |-> "moderate"]
      [] f = "hallucinations" -> [claim |-> "", why_hallucinated |-> ""]
      [] f = "weak_critiques" -> [claim |-> "", why_weak |-> ""]

\* the allowed values of the enum-like field k of an item of list f, {} when
\* k is not enum-like there
EnumAllowed(f, k) ==
    CASE k = "severity" /\ f \in {"local_issues", "global_issues", "disagreements",
                                  "missed_issues"} -> Severity
      [] k = "priority" /\ f = "improvement_suggestions" -> Severity
      [] k = "category" /\ f = "global_issues" -> GlobalIssueCategory
      [] k = "type" /\ f = "reader_questions" -> ReaderQuestionType
      [] OTHER -> {}

ListFieldsOf(by) ==
    IF by = "_dict_to_primary" THEN PrimaryListFields ELSE AuditListFields

DefaultsOf(by) ==
    IF by = "_dict_to_primary" THEN DefaultPrimaryAnalysis ELSE DefaultAuditResult

\* every field an object d has is of the type the schema expects: a string
\* for a string field, not an infinite number for an index or a count
FieldsTyped(d, strKeys, intKeys) ==
    /\ IsDict(d)
    /\ \A k \in DOMAIN d.o :
          /\ k \in strKeys => d.o[k].t = "str"
          /\ k \in intKeys => d.o[k].t # "inf"

StrKeysOf(f) ==
    {k \in DOMAIN ItemDefaults(f) : k # "paragraph_index" /\ EnumAllowed(f, k) = {}}

\* a reply that is an object whose fields, where present, have the expected
\* shape: lists of objects, objects, strings; it may lack any field and hold
\* any value in an enum-like field
Regular(r, by) ==
    /\ IsDict(r)
    /\ \A f \in ListFieldsOf(by) :
          HasKey(r, f) =>
             /\ r.o[f].t = "list"
             /\ \A i \in 1..Len(r.o[f].l) :
                   FieldsTyped(r.o[f].l[i], StrKeysOf(f), {"paragraph_index"})
    /\ by = "_dict_to_primary" /\ HasKey(r, "text_overview") =>
          FieldsTyped(r.o["text_overview"],
                      {"genre_guess", "tone", "apparent_audience", "language"},
                      {"word_count", "paragraph_count"})
    /\ by = "_dict_to_primary" /\ HasKey(r, "quality_scores") =>
          IsDict(r.o["quality_scores"])

\* C9: coercion into PrimaryAnalysis or AuditResult never raises, whatever
\* the shape of the parsed value: a list field that is not a list yields the
\* empty list, and a list yields one typed item per item of the reply.
C9_CoercionNeverRaises ==
    coerced # NotCoerced =>
       /\ ~coerced.res.raised
       /\ IsDict(reply) =>
             \A f \in ListFieldsOf(coerced.by) :
                LET v == Get(reply, f, EmptyList)
                IN  Len(coerced.res.val[f]) = IF v.t = "list" THEN Len(v.l) ELSE 0

\* C10: on a reply whose present fields have the expected shape, coercion
\* does not fail, every field the reply or one of its items lacks gets its
\* documented default, and every enum-like field whose value is not in its
\* allowed set gets its fixed default (severity minor for local and global
\* issues, category other, type unclear_reference, priority moderate, verdict
\* agree and severity moderate for audit items).
C10_MissingFieldsDefault ==
    coerced # NotCoerced /\ Regular(reply, coerced.by) =>
       /\ ~coerced.res.raised
       /\ \A f \in DOMAIN DefaultsOf(coerced.by) :
             ~HasKey(reply, f) => coerced.res.val[f] = DefaultsOf(coerced.by)[f]
       /\ \A f \in ListFieldsOf(coerced.by) :
             HasKey(reply, f) =>
                /\ Len(coerced.res.val[f]) = Len(reply.o[f].l)
                /\ \A i \in 1..Len(reply.o[f].l) :
                      LET item == reply.o[f].l[i]
                          out == coerced.res.val[f][i]
                      IN  /\ DOMAIN out = DOMAIN ItemDefaults(f)
                          /\ \A k \in DOMAIN ItemDefaults(f) :
                                /\ ~HasKey(item, k) => out[k] = ItemDefaults(f)[k]
                                /\ /\ HasKey(item, k)
                                   /\ EnumAllowed(f, k) # {}
                                   /\ ~(item.o[k].t = "str"
                                        /\ item.o[k].s \in EnumAllowed(f, k))
                                   => out[k] = ItemDefaults(f)[k]
       /\ /\ coerced.by = "_dict_to_audit"
          /\ HasKey(reply, "audit_verdict")
          /\ ~(reply.o["audit_verdict"].t = "str"
               /\ reply.o["audit_verdict"].s \in AuditVerdict)
          => coerced.res.val.audit_verdict = "agree"

\* an audit reply whose disagreement lacks every field but an unrecognised
\* severity has been coerced
C10_Witness ==
    /\ coerced # NotCoerced
    /\ coerced.by = "_dict_to_audit"
    /\ reply = JObj("disagreements" :> JList(<<JObj("severity" :> JStr("Major"))>>))
    /\ ~coerced.res.raised
    /\ coerced.res.val.disagreements[1].severity = "moderate"

(***************************************************************************)
(* The run: order of the stages, cancellation, failures.                   *)
(***************************************************************************)
\* the stage the pipeline enters after stage s
NextStage(s) ==
    CASE s = "Validating" -> "AnalyzingDeterministic"
      [] s = "AnalyzingDeterministic" ->
           IF Strip(requirements) = <<>> THEN "GeneratingRequirements"
           ELSE "PrimaryCritique"
      [] s = "GeneratingRequirements" -> "PrimaryCritique"
      [] s = "PrimaryCritique" ->
           IF config.enable_audit THEN "AuditCritique" ELSE "BuildingReport"
      [] s = "AuditCritique" -> "BuildingReport"
      [] s = "BuildingReport" -> "Done"
      [] OTHER -> "none"

\* the work of stage s is finished when the events are p and the results l
Finished(s, p, l) ==
    CASE s = "Validating" -> Len(p) > 0
      [] s = "AnalyzingDeterministic" -> l.deterministic.computed
      [] s = "GeneratingRequirements" -> Strip(l.effective_requirements) # <<>>
      [] s = "PrimaryCritique" ->
           l.primary_analysis # NoResult /\ Len(l.llm_calls) = 1
      [] s = "AuditCritique" ->
           l.audit_result # NoResult /\ Len(l.llm_calls) = 2
      [] s = "BuildingReport" -> TRUE
      [] OTHER -> FALSE

\* C1: a run changes stage only to the next stage of Validating,
\* AnalyzingDeterministic, (GeneratingRequirements), PrimaryCritique,
\* (AuditCritique), BuildingReport, Done, and only when the work of the
\* stage it leaves is finished; GeneratingRequirements is skipped exactly
\* when requirements were given and AuditCritique exactly when auditing is
\* disabled.
C1_StagesInOrder ==
    [][stage' # stage => /\ stage' = NextStage(stage)
                         /\ Finished(stage, progress', locals')]_vars

\* a run with auditing and without requirements has visited every stage
C1_Witness ==
    /\ stage = "Done"
    /\ config.enable_audit
    /\ Strip(requirements) = <<>>
    /\ Len(progress) = 7

\* C2: once cancellation has been requested, none of the stages
\* deterministic analysis, requirements generation, primary critique, audit
\* critique and report building is entered.
C2_CancelBeforeEveryStage ==
    [][cancel /\ stage' # stage =>
          stage' \notin {"AnalyzingDeterministic", "GeneratingRequirements",
                         "PrimaryCritique", "AuditCritique", "BuildingReport"}]_vars

\* C3: for a text that is blank or longer than max_input_chars the run only
\* raises ValueError: no progress event, no deterministic analysis, no chat
\* call and so no request and no cache access, nothing persisted.
C3_InvalidInputRaisesFirst ==
    Len(text) > config.max_input_chars \/ Strip(text) = <<>> =>
       /\ pc \in {"start", "raised"}
       /\ pc = "raised" => /\ outcome.status = "raised"
                           /\ outcome.error.type = "ValueError"
       /\ pc = "start" => outcome = Running
       /\ stage = "Validating"
       /\ progress = <<>>
       /\ ~locals.deterministic.computed
       /\ chat[RunCaller].st = "idle"
       /\ chat[RunCaller].requests = 0
       /\ call_log[RunCaller] = <<>>
       /\ DOMAIN written = {}
       /\ saved = {}

\* a text of white space only, within the limit, has been rejected
C3_Witness ==
    /\ pc = "raised"
    /\ text # <<>>
    /\ Strip(text) = <<>>
    /\ Len(text) <= config.max_input_chars
    /\ outcome.error = [type |-> "ValueError", msg |-> [text |-> "Input text is empty."]]

\* C4: once the chat call of the primary or of the audit stage has used up
\* its attempts, the run can only raise the aggregated RuntimeError: it
\* enters no further stage, returns no report, persists nothing and emits
\* no done event.
C4_ExhaustedRetriesAbort ==
    LET f == chat[RunCaller]
    IN  f.st = "raised" =>
           /\ pc \in {"primary", "audit", "raised"}
           /\ stage = IF f.role = "primary" THEN "PrimaryCritique" ELSE "AuditCritique"
           /\ outcome.status # "returned"
           /\ pc = "raised" =>
                 /\ outcome.status = "raised"
                 /\ outcome.error.type = "RuntimeError"
                 /\ outcome.error.msg.text = "LLM call failed"
                 /\ outcome.error.msg.attempts = _get_client(f.role).retries + 1
                 /\ outcome.error.msg.cause = f.errs[Len(f.errs)]
           /\ saved = {}
           /\ \A i \in 1..Len(progress) : progress[i][1] # "done"

\* the audit call failed for good after the primary call had succeeded, and
\* the run has raised
C4_Witness ==
    /\ chat[RunCaller].st = "raised"
    /\ chat[RunCaller].role = "audit"
    /\ Len(locals.llm_calls) = 1
    /\ pc = "raised"

\* C5: a chat call dispatches at most retries + 1 requests, one per attempt;
\* it has waited 2^k seconds after each failed attempt k < retries and not
\* after the last one; every failure consumes one attempt; when all attempts
\* have failed it raises one error that carries the number of attempts and
\* the last error caught.
C5_RetryBudget ==
    \A c \in Callers :
       LET f == chat[c]
           retries == _get_client(f.role).retries
       IN  /\ f.requests <= retries + 1
           /\ f.sleeps = [k \in 1..Len(f.sleeps) |-> 2 ^ (k - 1)]
           /\ f.st = "attempt" =>
                 /\ f.requests = f.attempt
                 /\ Len(f.errs) = f.attempt
                 /\ Len(f.sleeps) = f.attempt
                 /\ f.attempt <= retries
           /\ f.st \in {"write_open", "write_data", "sleep"} =>
                 /\ f.requests = f.attempt + 1
                 /\ Len(f.sleeps) = f.attempt
           /\ f.st = "sleep" => Len(f.errs) = f.attempt + 1 /\ f.attempt < retries
           /\ f.st = "raised" =>
                 /\ f.requests = retries + 1
                 /\ Len(f.errs) = retries + 1
                 /\ Len(f.sleeps) = retries
                 /\ ChatError(f).type = "RuntimeError"
                 /\ ChatError(f).msg.attempts = retries + 1
                 /\ ChatError(f).msg.cause = f.errs[retries + 1]

\* a call with two retries has failed three times, the last time with
\* another error than the first, after waits of 1 and 2 seconds
C5_Witness ==
    \E c \in Callers :
       /\ chat[c].st = "raised"
       /\ chat[c].sleeps = <<1, 2>>
       /\ chat[c].errs[1] # chat[c].errs[3]

\* C8: when the text the primary or the audit call returned holds no JSON
\* value, the stage yields the default result with the parse-error marker
\* as summary, the call's metadata is kept and the run goes on.
C8_ParseErrorNotFatal ==
    [][LET f == chat[RunCaller]
           garbled == \A i \in 1..Len(f.text) : f.text[i].k # "json"
       IN  /\ pc = "primary" /\ pc' # "primary" /\ f.st = "returned" /\ garbled
              => /\ pc' = IF config.enable_audit THEN "check_audit" ELSE "build_report"
                 /\ outcome' = Running
                 /\ locals'.primary_analysis =
                       [DefaultPrimaryAnalysis EXCEPT !.summary = PrimaryParseError]
                 /\ locals'.llm_calls = <<f.meta>>
           /\ pc = "audit" /\ pc' # "audit" /\ f.st = "returned" /\ garbled
              => /\ pc' = "build_report"
                 /\ outcome' = Running
                 /\ locals'.audit_result =
                       [DefaultAuditResult EXCEPT !.summary = AuditParseError]
                 /\ Len(locals'.llm_calls) = 2]_vars

\* a report whose primary and audit results are both parse-error results
\* has been returned
C8_Witness ==
    /\ outcome.status = "returned"
    /\ outcome.report.primary_analysis.summary = PrimaryParseError
    /\ outcome.report.audit # NoResult
    /\ outcome.report.audit.summary = AuditParseError
    /\ Len(outcome.report.llm_calls) = 2

(***************************************************************************)
(* The cache under concurrent callers.                                     *)
(***************************************************************************)
\* two calls have the same model, messages and temperature
SameRequest(f, g) ==
    /\ _get_client(f.role).model = _get_client(g.role).model
    /\ _get_client(f.role).temperature = _get_client(g.role).temperature
    /\ f.messages = g.messages

\* C6: with caching enabled, a call that starts after a call with the same
\* model, messages and temperature has returned is served from the cache:
\* it returns the text of the cache file, its metadata has cached = true, it
\* dispatches no request and uses no attempt.
C6_SecondCallServedFromCache ==
    [][\A c \in Callers :
          /\ config.enable_cache
          /\ chat[c].st = "begin"
          /\ chat'[c].st # "begin"
          /\ \E d \in Callers \ {c} :
                chat[d].st = "returned" /\ SameRequest(chat[c], chat[d])
          => /\ chat'[c].st = "returned"
             /\ chat'[c].meta.cached
             /\ chat'[c].requests = 0
             /\ chat'[c].attempt = 0
             /\ \E d \in Callers \ {c} :
                   /\ chat[d].st = "returned"
                   /\ SameRequest(chat[c], chat[d])
                   /\ chat'[c].text = cache[chat[d].ck]
             /\ Len(call_log'[c]) = 1
             /\ cache' = cache]_vars

\* a call has been served from the cache with the text another call, which
\* the service answered, had stored
C6_Witness ==
    /\ chat["c1"].st = "returned"
    /\ ~chat["c1"].meta.cached
    /\ chat["c2"].st = "returned"
    /\ chat["c2"].meta.cached
    /\ chat["c2"].requests = 0
    /\ chat["c2"].text = chat["c1"].text
    /\ chat["c2"].json_mode # chat["c1"].json_mode

\* C7: all the calls that write one cache key write the same value, so that
\* the text stored under a key does not depend on the order of the writes.
C7_SameKeySameValue == \A k \in DOMAIN written : Cardinality(written[k]) <= 1

(***************************************************************************)
(* The parsers.                                                            *)
(***************************************************************************)
\* the top-level field names of the result a parser builds
ExpectedFields(by) ==
    IF by = "_parse_primary_response"
    THEN PrimaryListFields
         \cup {"text_overview", "quality_scores", "strengths", "summary"}
    ELSE AuditListFields \cup {"audit_verdict", "confidence_score", "summary"}

\* v is an object with one key whose value is an object that has an expected
\* field
LooksWrapped(v, by) ==
    /\ IsDict(v)
    /\ Cardinality(DOMAIN v.o) = 1
    /\ \A k \in DOMAIN v.o :
          IsDict(v.o[k]) /\ DOMAIN v.o[k].o \cap ExpectedFields(by) # {}

\* C11: a parsed reply that is an object with exactly one key whose value is
\* an object with at least one expected top-level field is coerced from that
\* value; every other parsed reply is coerced as it is.
C11_UnwrapOneLevel ==
    /\ coerced # NotCoerced
    /\ coerced.by \in {"_parse_primary_response", "_parse_audit_response"}
    /\ Len(raw) = 1
    /\ raw[1].k = "json"
    => LET v == raw[1].v
           target == IF LooksWrapped(v, coerced.by)
                     THEN v.o[CHOOSE k \in DOMAIN v.o : TRUE] ELSE v
       IN  coerced.res = IF coerced.by = "_parse_primary_response"
                         THEN _dict_to_primary(target)
                         ELSE _dict_to_audit(target)

(***************************************************************************)
(* extract_json.                                                           *)
(***************************************************************************)
Fences == {"fence", "fence_json"}

\* the text s parses as JSON
Parses(s) == Len(Strip(s)) = 1 /\ Strip(s)[1].k = "json"

\* the line that closes the block opened at position i of s, 0 without one
BlockEnd(s, i) ==
    IF \E j \in (i + 1)..Len(s) : s[j].k \in Fences
    THEN Min({j \in (i + 1)..Len(s) : s[j].k \in Fences})
    ELSE 0

\* the inside of the first block of s that a fence of one of the kinds opens,
\* the empty text without such a block
FirstBlockInside(s, kinds) ==
    LET is == {i \in 1..Len(s) : s[i].k \in kinds /\ BlockEnd(s, i) # 0}
    IN  IF is = {} THEN <<>>
        ELSE Strip(SubSeq(s, Min(is) + 1, BlockEnd(s, Min(is)) - 1))

\* the first balanced object of s, the empty text without one
FirstBalanced(s) ==
    IF BraceCandidate(s).raised THEN <<>> ELSE BraceCandidate(s).val

\* the first of the candidates that parses, dflt when none does
FirstParsing(cands, dflt) ==
    IF \E i \in 1..Len(cands) : Parses(cands[i])
    THEN cands[Min({i \in 1..Len(cands) : Parses(cands[i])})]
    ELSE dflt

\* C12 (as stated): extract_json returns the first that parses of the
\* trimmed text, the inside of the first fenced code block, tagged or plain,
\* and the first balanced object; the text itself when none parses.
C12_FirstFencedBlock ==
    coerced # NotCoerced /\ coerced.by = "extract_json" =>
       coerced.res = FirstParsing(<<Strip(raw), FirstBlockInside(raw, Fences),
                                   FirstBalanced(raw)>>, raw)

\* C12 (amended): extract_json returns the first that parses of the trimmed
\* text, the inside of the first ```json block, the inside of the first
\* plain ``` block, and the first balanced object; the text itself when none
\* parses.  Its result parses as JSON or is the text.
C12_StagesInOrder ==
    coerced # NotCoerced /\ coerced.by = "extract_json" =>
       /\ coerced.res =
             FirstParsing(<<Strip(raw), FirstBlockInside(raw, {"fence_json"}),
                            FirstBlockInside(raw, {"fence"}), FirstBalanced(raw)>>,
                          raw)
       /\ Parses(coerced.res) \/ coerced.res = raw

\* of a text with a plain block and then a ```json block, both holding JSON,
\* the inside of the second has been returned
C12_Witness ==
    /\ coerced # NotCoerced
    /\ coerced.by = "extract_json"
    /\ Len(raw) = 6
    /\ raw[1] = Fence /\ raw[4] = FenceJson
    /\ Parses(<<raw[2]>>)
    /\ raw[2] # raw[5]
    /\ coerced.res = <<raw[5]>>

\* s is prose: characters, white space and braces, no JSON value and no fence
IsProse(s) == \A i \in 1..Len(s) : s[i].k \in {"ch", "ws", "lbrace", "rbrace"}

\* s is a JSON object in a code block, bare, or after some prose
HoldsObject(s) ==
    /\ s # <<>>
    /\ \/ /\ s[Len(s)].k = "json"
          /\ s[Len(s)].v.t = "obj"
          /\ IsProse(SubSeq(s, 1, Len(s) - 1))
       \/ /\ Len(s) = 3
          /\ s[1].k \in Fences /\ s[3] = Fence
          /\ s[2].k = "json" /\ s[2].v.t = "obj"

\* the object such a text holds
ObjectOf(s) == IF s[Len(s)].k = "json" THEN s[Len(s)].v ELSE s[2].v

\* C13: of a text that is a JSON object in a fenced code block, a bare JSON
\* object, or a JSON object after any prose, extract_json returns text that
\* parses to that object.
C13_RecoversObject ==
    coerced # NotCoerced /\ coerced.by = "extract_json" /\ HoldsObject(raw) =>
       /\ Parses(coerced.res)
       /\ Strip(coerced.res)[1].v = ObjectOf(raw)

(***************************************************************************)
(* Progress events.                                                        *)
(***************************************************************************)
\* the event emitted on entering stage s
EventOf(s) ==
    CASE s = "AnalyzingDeterministic" -> <<"deterministic_analysis", 10>>
      [] s = "GeneratingRequirements" -> <<"generating_requirements", 20>>
      [] s = "PrimaryCritique" -> <<"primary_analysis", 30>>
      [] s = "AuditCritique" -> <<"audit_analysis", 60>>
      [] s = "BuildingReport" -> <<"building_report", 85>>
      [] s = "Done" -> <<"done", 100>>
      [] OTHER -> <<"starting", 0>>

\* C14: the callback receives ("starting", 0.0) first and then one pair at
\* each stage transition, that of the stage entered, with strictly
\* increasing fractions; ("done", 1.0) is received only from a run that
\* returns a report, and a run that has failed has emitted no event but
\* those of the stages it entered.
C14_ProgressMonotone ==
    [][/\ stage' # stage => progress' = Append(progress, EventOf(stage'))
       /\ stage' = stage /\ progress' # progress =>
             stage = "Validating" /\ progress' = <<<<"starting", 0>>>>
       /\ \A i \in 1..(Len(progress') - 1) : progress'[i][2] < progress'[i + 1][2]
       /\ (\E i \in 1..Len(progress') : progress'[i][1] = "done") =>
             outcome'.status = "returned"
       /\ outcome'.status = "raised" =>
             /\ progress' = progress
             /\ progress # <<>> => progress[Len(progress)] = EventOf(stage)]_vars

\* a run has failed in its primary stage after four events
C14_Witness ==
    /\ outcome.status = "raised"
    /\ stage = "PrimaryCritique"
    /\ Len(progress) = 4
    /\ progress[4] = <<"primary_analysis", 30>>

(***************************************************************************)
(* The audit and the requirements.                                         *)
(***************************************************************************)
\* C15: the audit stage is entered only when auditing is enabled and the
\* primary call has returned, and its call is given the primary result; a
\* returned report has no audit and one call-metadata entry when auditing
\* is disabled, and an audit result and two entries, that of the primary
\* call and then that of the audit call, when it is enabled.
C15_AuditIffEnabled ==
    LET audited == \E i \in 1..Len(progress) : progress[i][1] = "audit_analysis"
    IN  /\ audited => /\ config.enable_audit
                      /\ locals.primary_analysis # NoResult
                      /\ Len(locals.llm_calls) >= 1
                      /\ locals.llm_calls[1].prompt_id = "primary_analysis"
        /\ stage = "AuditCritique" =>
              /\ audited
              /\ chat[RunCaller].role = "audit"
              /\ chat[RunCaller].messages.kind = "audit"
              /\ chat[RunCaller].messages.critique = locals.primary_analysis
        /\ outcome.status = "returned" =>
              /\ audited <=> config.enable_audit
              /\ outcome.report.primary_analysis = locals.primary_analysis
              /\ IF config.enable_audit
                 THEN /\ outcome.report.audit # NoResult
                      /\ Len(outcome.report.llm_calls) = 2
                      /\ outcome.report.llm_calls[1].prompt_id = "primary_analysis"
                      /\ outcome.report.llm_calls[1].model = config.primary.model
                      /\ outcome.report.llm_calls[2].prompt_id = "audit_analysis"
                      /\ outcome.report.llm_calls[2].model = config.audit.model
                 ELSE /\ outcome.report.audit = NoResult
                      /\ Len(outcome.report.llm_calls) = 1
                      /\ outcome.report.llm_calls[1].prompt_id = "primary_analysis"

\* a run with auditing disabled has returned its report, after one call
C15_Witness ==
    /\ outcome.status = "returned"
    /\ ~config.enable_audit
    /\ outcome.report.audit = NoResult
    /\ Len(outcome.report.llm_calls) = 1

\* C16: requirements are generated only when those of the caller are empty
\* or whitespace, the generation touches nothing of the service calls, the
\* primary call is given the generated requirements in place of the
\* caller's, and every returned report's requirements field is the text
\* the caller supplied.
C16_GeneratedRequirements ==
    [][LET generated == \E i \in 1..Len(progress') :
                           progress'[i][1] = "generating_requirements"
       IN  /\ generated => Strip(requirements) = <<>>
           /\ pc = "generating_requirements" /\ pc' # pc => UNCHANGED chatVars
           /\ stage' = "PrimaryCritique" =>
                 /\ generated <=> Strip(requirements) = <<>>
                 /\ chat'[RunCaller].messages.kind = "primary"
                 /\ chat'[RunCaller].messages.requirements =
                       IF generated THEN <<[k |-> "auto"]>> ELSE requirements
                 /\ Strip(chat'[RunCaller].messages.requirements) # <<>>
           /\ outcome'.status = "returned" =>
                 outcome'.report.requirements = requirements]_vars

\* a run given whitespace for requirements has returned a report that shows
\* the whitespace, and the generated requirements in its prompt
C16_Witness ==
    /\ outcome.status = "returned"
    /\ requirements = <<Ws>>
    /\ outcome.report.requirements = <<Ws>>
    /\ outcome.report.generated_prompt.requirements = <<[k |-> "auto"]>>

(***************************************************************************)
(* The kinds of failure.                                                   *)
(***************************************************************************)
\* the exception type of the failure chat raises when its attempts are spent
ServiceFailureType == LLMFailed(1, "error").type

\* C18: the failure a cancelled run raises is of a kind of its own, not the
\* kind of the failure raised when the retries of a service call are spent.
C18_CancellationDistinguished ==
    outcome.status = "raised" /\ outcome.error.msg.text = "Cancelled by user." =>
        outcome.error.type # ServiceFailureType

(***************************************************************************)
(* Runs in one process.                                                    *)
(***************************************************************************)
\* C17: two runs in one process share no mutable state but the cache; each
\* has a logger with sinks of its own: the file of a run exists once its
\* Orchestrator is constructed, and holds the records of that run only.
C17_RunsShareOnlyCache ==
    \A r \in Runs :
        /\ orchestrators[r].constructed => log_files[r].exists
        /\ \A i \in 1..Len(log_files[r].records) : log_files[r].records[i].run = r

(***************************************************************************)
(* Repetitions.                                                            *)
(***************************************************************************)
\* the grams of two or three words of the paragraphs that are made of
\* stop-words only, joined
StopGrams(paras) ==
    UNION {LET words == FindWords(paras[k])
           IN  {Join(SubSeq(words, i, i + n - 1)) :
                   <<i, n>> \in {x \in (1..Len(words)) \X {2, 3} :
                                   /\ x[1] + x[2] - 1 <= Len(words)
                                   /\ AllStop(SubSeq(words, x[1], x[1] + x[2] - 1))}}
           : k \in 1..Len(paras)}

\* C19: the count of every item detect_repetitions returns is the number
\* of distinct paragraphs that contain its gram, the size of its locations;
\* no returned gram is made of stop-words only; and of the four paragraphs
\* with 'big red' once in each, minimum count 3, the item 'big red' has
\* count 4.
C19_NgramCountedPerParagraph ==
    analysis.by = "detect_repetitions" =>
        /\ \A i \in 1..Len(analysis.res) :
              /\ analysis.res[i].count = Len(analysis.res[i].locations)
              /\ analysis.res[i].phrase \notin StopGrams(paragraphs)
        /\ paragraphs = ExampleParagraphs /\ min_count = 3 =>
              \E i \in 1..Len(analysis.res) :
                  /\ analysis.res[i].phrase = "big red"
                  /\ analysis.res[i].count = 4

\* the items of a pass are those of count at least min, greatest count
\* first, at most cap of them, each with its locations increasing and
\* within the paragraphs
PassResult(res, min, cap) ==
    /\ Len(res) <= cap
    /\ \A i \in 1..Len(res) :
          /\ res[i].count >= min
          /\ i < Len(res) => res[i].count >= res[i + 1].count
          /\ \A j \in 1..Len(res[i].locations) :
                /\ res[i].locations[j] \in 0..(Len(paragraphs) - 1)
                /\ j < Len(res[i].locations) =>
                      res[i].locations[j] < res[i].locations[j + 1]

\* C20: each repetition pass returns only items whose count reaches its
\* minimum, greatest count first, at most 30 n-gram items and at most 20
\* word items, the locations of each sorted and distinct; the repetitions of
\* run_deterministic_analysis are the n-gram items followed by the word
\* items, no two of them with the same phrase.
C20_RepetitionPasses ==
    /\ analysis.by = "detect_repetitions" => PassResult(analysis.res, min_count, 30)
    /\ analysis.by = "detect_word_repetitions" =>
          PassResult(analysis.res, min_count, 20)
    /\ analysis.by = "run_deterministic_analysis" =>
          /\ analysis.res =
                detect_repetitions(paragraphs, 3, <<2, 3>>)
                    \o detect_word_repetitions(paragraphs, 5)
          /\ \A i, j \in 1..Len(analysis.res) :
                analysis.res[i].phrase = analysis.res[j].phrase => i = j
          /\ \E k \in 0..Len(analysis.res) :
                /\ PassResult(SubSeq(analysis.res, 1, k), 3, 30)
                /\ PassResult(SubSeq(analysis.res, k + 1, Len(analysis.res)), 5, 20)

\* the n-gram pass has cut its result of the five long paragraphs to 30
\* items, the first 30 in the order of the text
C20_Witness ==
    /\ paragraphs = LongParagraphs
    /\ analysis.by = "detect_repetitions"
    /\ Len(analysis.res) = 30
    /\ analysis.res[30].phrase = "w30 w31"

(***************************************************************************)
(* The end of a run, and cancellation during a call.                       *)
(***************************************************************************)
\* C30: a failure of save_run does not abort the run: from the point where
\* the report is persisted the run only returns, with its report and the
\* 'done' event, whether the record was saved or not.
C30_SaveFailureNotFatal ==
    [][pc = "persist" /\ pc' # pc =>
          /\ pc' = "returned"
          /\ outcome' = [status |-> "returned", report |-> Report]
          /\ progress' = Append(progress, <<"done", 100>>)
          /\ saved' \in {saved, saved \cup {Report}}]_vars

\* a run has returned its report and emitted 'done' with no record saved
C30_Witness ==
    /\ outcome.status = "returned"
    /\ saved = {}
    /\ progress[Len(progress)] = <<"done", 100>>
    /\ outcome.report.primary_analysis # NoResult

\* C25: cancellation is not preemptive.  A run raises the cancellation
\* failure only at one of its three cancel checks; a call in flight and its
\* retries go on after a request to cancel, and a request made after the
\* last check of the run changes nothing: the run returns its full report.
C25_CancelNonPreemptive ==
    [][/\ outcome'.status = "raised" /\ outcome.status # "raised"
          /\ outcome'.error = Cancelled =>
             /\ cancel
             /\ pc \in {"check_deterministic", "check_primary", "check_audit"}
       /\ cancel /\ pc \in {"primary", "audit"} /\ chat'[RunCaller] # chat[RunCaller] =>
             /\ pc' = pc
             /\ chat[RunCaller].st = "sleep" => chat'[RunCaller].st = "attempt"
             /\ chat'[RunCaller].requests >= chat[RunCaller].requests
       /\ cancel /\ outcome'.status = "returned" =>
             /\ outcome'.report = Report
             /\ outcome'.report.primary_analysis # NoResult
             /\ config.enable_audit => outcome'.report.audit # NoResult]_vars

\* cancellation was requested during the audit call, whose second attempt
\* is under way
C25_Witness ==
    /\ cancel
    /\ pc = "audit"
    /\ chat[RunCaller].st = "attempt"
    /\ chat[RunCaller].attempt = 1

\* C27: once the service has answered a call, the call dispatches no other
\* request, returns the text of that answer and has one entry in the call
\* log, also when the cache write after the answer fails.
C27_OneResponseEndsCall ==
    [][\A c \in Callers :
          chat[c].st \in {"write_open", "write_data"} /\ chat'[c] # chat[c] =>
             /\ chat'[c].st \in {"write_data", "returned"}
             /\ chat'[c].text = chat[c].text
             /\ chat'[c].requests = chat[c].requests
             /\ call_log'[c] = call_log[c]]_vars

(***************************************************************************)
(* The cache and the calls.                                                *)
(***************************************************************************)
\* the service has answered the call of frame f
Answered(f) == "call_id" \in DOMAIN f.meta /\ ~f.meta.cached /\ f.requests >= 1

\* C26: with caching disabled no call is served from the cache and the
\* cache is never written.  With caching enabled a call is served from the
\* cache only at its head, before any request, and writes nothing then; the
\* cache changes only in the write that follows an answer of the service,
\* so an attempt that fails, and a call whose requests all fail, leave it as
\* it was.
C26_CacheReadWrite ==
    [][\A c \in Callers :
          /\ ~config.enable_cache =>
                /\ cache' = cache
                /\ written' = written
                /\ chat'[c].st = "returned" =>
                      ~chat'[c].meta.cached /\ chat'[c].requests >= 1
          /\ chat'[c] # chat[c] /\ chat'[c].st = "returned" /\ chat'[c].meta.cached =>
                /\ config.enable_cache
                /\ chat[c].st = "begin"
                /\ chat'[c].requests = 0
                /\ chat'[c].text = cache[chat'[c].ck]
                /\ cache' = cache
          /\ cache' # cache =>
                \E d \in Callers : /\ chat[d].st \in {"write_open", "write_data"}
                                    /\ chat'[d] # chat[d]
                                    /\ Answered(chat[d])
          /\ chat[c].st = "attempt" /\ chat'[c].st \in {"sleep", "raised"} =>
                cache' = cache
          /\ chat'[c].st = "raised"
                /\ (\A i \in 1..Len(chat'[c].errs) : chat'[c].errs[i] \in ServiceErrors)
                => ~Answered(chat'[c])]_vars

\* with caching disabled, the primary call of a run whose key has a cache
\* file was answered by the service
C26_Witness ==
    /\ ~config.enable_cache
    /\ PrimaryKey(config, text, requirements) \in DOMAIN cache
    /\ pc = "primary"
    /\ chat[RunCaller].st = "returned"
    /\ chat[RunCaller].requests >= 1
    /\ ~chat[RunCaller].meta.cached

\* json_mode applied to the text of a response
Cleaned(json_mode, raw_text) == IF json_mode THEN extract_json(raw_text) ELSE raw_text

\* C28: the cache key of a call depends on the model, the messages and the
\* temperature only: calls that agree on the three have one key whatever
\* their json_mode, top_p, max_tokens and role, and calls that differ in one
\* of the three have two.  So with caching enabled a call that starts after
\* such a call has returned gets the text that call stored, which is a
\* response cleaned as the json_mode of the first call says.
C28_KeyIgnoresJsonMode ==
    [][\A c, d \in Callers :
          /\ config.enable_cache
                /\ chat'[c].st \notin {"idle", "begin"}
                /\ chat'[d].st \notin {"idle", "begin"} =>
                   (chat'[c].ck = chat'[d].ck <=> SameRequest(chat'[c], chat'[d]))
          /\ c # d /\ config.enable_cache
                /\ chat[c].st = "begin" /\ chat'[c].st # "begin"
                /\ chat[d].st = "returned" /\ ~chat[d].meta.cached
                /\ SameRequest(chat[c], chat[d]) =>
                   /\ chat'[c].st = "returned"
                   /\ chat'[c].meta.cached
                   /\ chat'[c].text = chat[d].text
                   /\ chat[d].text \in {Cleaned(chat[d].json_mode, raw_text) :
                                            raw_text \in ServiceTexts}]_vars

\* a call in JSON mode of the audit role has been served the text, prose
\* included, that a call of the primary role without JSON mode had stored
C28_Witness ==
    /\ chat["c1"].st = "returned"
    /\ chat["c1"].role = "primary"
    /\ ~chat["c1"].json_mode
    /\ ~chat["c1"].meta.cached
    /\ chat["c2"].st = "returned"
    /\ chat["c2"].role = "audit"
    /\ chat["c2"].json_mode
    /\ chat["c2"].meta.cached
    /\ config.audit.top_p # config.primary.top_p
    /\ config.audit.max_tokens # config.primary.max_tokens
    /\ chat["c2"].text = chat["c1"].text
    /\ chat["c2"].text # Cleaned(TRUE, chat["c2"].text)

(***************************************************************************)
(* The registry of the web layer.                                          *)
(***************************************************************************)
\* C29: the registry entry of a run goes from status 'running' to
\* 'completed' or to 'error', once, and is never changed after that; the
\* cancel endpoint sets the flag of a run only while its status is
\* 'running', answering 'cancelling', and answers 404 and changes nothing
\* for a run that is unknown, completed or failed.
C29_RegistryEntry ==
    [][\A r \in RunIds :
          /\ _active_runs[r] # Absent /\ _active_runs'[r] # _active_runs[r] =>
                /\ _active_runs[r].status = "running"
                /\ _active_runs'[r].status \in {"running", "completed", "error"}
          /\ _active_runs[r] = Absent /\ _active_runs'[r] # Absent =>
                _active_runs'[r].status = "running" /\ ~_active_runs'[r].cancel
          /\ response' # response /\ response'.run_id = r =>
                IF _active_runs[r] # Absent /\ _active_runs[r].status = "running"
                THEN /\ response'.body = "cancelling"
                     /\ _active_runs'[r] = [_active_runs[r] EXCEPT !.cancel = TRUE]
                ELSE /\ response'.code = 404
                     /\ _active_runs' = _active_runs
          /\ _active_runs[r] # Absent /\ _active_runs[r].status = "running"
                /\ _active_runs'[r].status = "running"
                /\ _active_runs'[r].cancel # _active_runs[r].cancel =>
                   /\ _active_runs'[r].cancel
                   /\ response' = [run_id |-> r, code |-> 200, body |-> "cancelling"]]_vars

\* a cancel request for a completed run has been answered 404 while the
\* other run, cancelled in time, has failed
C29_Witness ==
    /\ _active_runs["id1"].status = "completed"
    /\ response = [run_id |-> "id1", code |-> 404,
                   body |-> "Run not found or not running."]
    /\ _active_runs["id2"].status = "error"

(***************************************************************************)
(* Coreference flags.                                                      *)
(***************************************************************************)
\* the positions (pi, si), both counted from 0, of the sentences of a document
SentencePositions(paras) ==
    UNION {{<<pi, si>> : si \in 0..(Len(split_sentences(paras[pi + 1])) - 1)} :
              pi \in 0..(Len(paras) - 1)}

\* the sentence at a position holds a pronoun, and the window of w sentences
\* on either side of it in its paragraph holds no capitalized token outside
\* the denylist
NoAntecedent(paras, w, pos) ==
    LET sents == split_sentences(paras[pos[1] + 1])
    IN  /\ sent_pronouns(sents[pos[2] + 1]) # <<>>
        /\ nouns_in_context(sents, pos[2], w) = <<>>

\* the number of sentences of the document before the one at a position
RECURSIVE SentencesBefore(_, _)
SentencesBefore(paras, pos) ==
    IF pos[1] = 0 THEN pos[2]
    ELSE Len(split_sentences(paras[pos[1]]))
            + SentencesBefore(paras, <<pos[1] - 1, pos[2]>>)

FlagsAt(res, pos) ==
    SelectSeq(res, LAMBDA f : f.paragraph_index = pos[1] /\ f.sentence_index = pos[2])

CorefDone == analysis.by = "detect_coreference_flags"

\* C21 as stated: while fewer than 20 flags are returned, a sentence is
\* flagged exactly when its window holds no candidate antecedent and it is
\* one of the first two sentences of the document; at most 20 flags
C21_FlaggedIffFirstTwoOfDocument ==
    CorefDone =>
        /\ Len(analysis.res) <= MaxFlags
        /\ Len(analysis.res) < MaxFlags =>
              \A pos \in SentencePositions(paragraphs) :
                  FlagsAt(analysis.res, pos) # <<>>
                      <=> /\ NoAntecedent(paragraphs, window, pos)
                          /\ SentencesBefore(paragraphs, pos) <= 1

\* the pronouns of the first two sentences of the first paragraph that have
\* no candidate antecedent
EarlyPronounCount(paras, w) ==
    LET early == {pos \in SentencePositions(paras) :
                      pos[1] = 0 /\ pos[2] <= 1 /\ NoAntecedent(paras, w, pos)}
        n(pos) == Len(sent_pronouns(split_sentences(paras[1])[pos[2] + 1]))
    IN  (IF <<0, 0>> \in early THEN n(<<0, 0>>) ELSE 0)
            + (IF <<0, 1>> \in early THEN n(<<0, 1>>) ELSE 0)

\* C21, amended: the flags are one for every pronoun of each of the first two
\* sentences of the first paragraph whose window, taken inside that
\* paragraph, holds no candidate antecedent, cut to the first 20; no other
\* sentence is flagged
C21_FlaggedIffFirstTwoOfFirstParagraph ==
    CorefDone =>
        LET res == analysis.res
        IN  /\ Len(res) = MinOf(MaxFlags, EarlyPronounCount(paragraphs, window))
            /\ \A k \in 1..Len(res) :
                  LET pos == <<res[k].paragraph_index, res[k].sentence_index>>
                  IN  /\ pos[1] = 0 /\ pos[2] \in {0, 1}
                      /\ pos \in SentencePositions(paragraphs)
                      /\ NoAntecedent(paragraphs, window, pos)
                      /\ \E i \in 1..Len(sent_pronouns(res[k].context)) :
                            sent_pronouns(res[k].context)[i] = res[k].pronoun
                      /\ res[k].context = split_sentences(paragraphs[1])[pos[2] + 1]
                      /\ k > 1 => res[k - 1].sentence_index <= pos[2]
            /\ Len(res) < MaxFlags =>
                  \A pos \in SentencePositions(paragraphs) :
                      pos[1] = 0 /\ pos[2] <= 1 /\ NoAntecedent(paragraphs, window, pos)
                          => Len(FlagsAt(res, pos))
                                = Len(sent_pronouns(split_sentences(paragraphs[1])[pos[2] + 1]))

\* the second sentence of the first paragraph is flagged, and the first
\* sentence of the second paragraph has no candidate antecedent either
C21_Witness ==
    /\ CorefDone
    /\ Len(paragraphs) = 2
    /\ FlagsAt(analysis.res, <<0, 1>>) # <<>>
    /\ NoAntecedent(paragraphs, window, <<1, 0>>)
    /\ FlagsAt(analysis.res, <<1, 0>>) = <<>>

\* C22: in a document of one paragraph, a pronoun of the first sentence that
\* no capitalized token outside the denylist precedes is flagged
C22_FlaggedWhenNothingPrecedes ==
    CorefDone /\ Len(paragraphs) = 1 /\ paragraphs[1] # <<>> =>
        LET sent == split_sentences(paragraphs[1])[1]
        IN  \A i \in 1..Len(sent) :
                /\ Lower(sent[i]) \in _PRONOUNS_EN
                /\ \A j \in 1..(i - 1) :
                      sent[j] \notin CapitalizedWords \ _CAPITALIZED_PRONOUNS_EN
                => \E k \in 1..Len(analysis.res) :
                      /\ analysis.res[k].pronoun = Lower(sent[i])
                      /\ analysis.res[k].paragraph_index = 0
                      /\ analysis.res[k].sentence_index = 0

(***************************************************************************)
(* Readability.                                                            *)
(***************************************************************************)
ReadDone == analysis.by = "compute_readability"

\* the number of sentences of a text that have more than n words
SentencesAbove(txt, n) ==
    Cardinality({k \in 1..Len(split_sentences(txt)) :
                    count_words(split_sentences(txt)[k]) > n})

\* C23: the reading-ease score is set for the language en and for no other;
\* a text with no words or no sentences gives the zero-valued result with
\* the score unset; the long sentences are those of more than 25 words, the
\* very long ones those of more than 40, so the second count never exceeds
\* the first
C23_ReadabilityContract ==
    ReadDone =>
        LET res == analysis.res
            txt == paragraphs[1]
            empty == WordsOf(txt) = <<>> \/ split_sentences(txt) = <<>>
        IN  /\ language # "en" => res.flesch_reading_ease = None
            /\ res.flesch_reading_ease # None <=> language = "en" /\ ~empty
            /\ empty => /\ res.avg_sentence_length = 0
                        /\ res.avg_word_length = 0
                        /\ res.long_sentence_count = 0
                        /\ res.very_long_sentence_count = 0
                        /\ res.vocabulary_richness = 0
                        /\ res.flesch_reading_ease = None
            /\ ~empty => /\ res.long_sentence_count = SentencesAbove(txt, 25)
                         /\ res.very_long_sentence_count = SentencesAbove(txt, 40)
            /\ res.very_long_sentence_count <= res.long_sentence_count

\* a text in another language than en with a very long sentence and a
\* sentence that is long but not very long
C23_Witness ==
    /\ ReadDone
    /\ language = "ru"
    /\ analysis.res.very_long_sentence_count >= 1
    /\ analysis.res.long_sentence_count > analysis.res.very_long_sentence_count
    /\ analysis.res.flesch_reading_ease = None

(***************************************************************************)
(* The export of the configuration.                                        *)
(***************************************************************************)
ExportDone == exported # NoSettings

\* the fields of the export that are not secrets are those of the settings
NonSecretFieldsKept ==
    LET d == exported.d.o
    IN  /\ DOMAIN d = {"max_input_chars", "max_report_chars", "models", "provider",
                       "litellm", "openai_api_key", "enable_audit", "enable_cache",
                       "verbosity", "store_prompts", "redact_secrets"}
        /\ d.max_input_chars = JNum(settings.max_input_chars)
        /\ d.max_report_chars = JNum(settings.max_report_chars)
        /\ d.models = JObj([primary |-> asdict_model(settings.primary),
                            audit |-> asdict_model(settings.audit)])
        /\ d.provider = JStr(settings.provider)
        /\ DOMAIN d.litellm.o = {"base_url", "api_key"}
        /\ d.litellm.o.base_url = JStr(settings.litellm.base_url)
        /\ d.enable_audit = JBool(settings.enable_audit)
        /\ d.enable_cache = JBool(settings.enable_cache)
        /\ d.verbosity = JNum(settings.verbosity)
        /\ d.store_prompts = JBool(settings.store_prompts)
        /\ d.redact_secrets = JBool(settings.redact_secrets)

\* a secret in its masked form: *** for one of at most 4 characters,
\* otherwise asterisks followed by its last 4 characters
Masked(secret, shown) ==
    IF Len(secret) <= 4 THEN shown = <<"*", "*", "*">>
    ELSE /\ Len(shown) = Len(secret)
         /\ \A i \in 1..Len(secret) :
               shown[i] = IF i <= Len(secret) - 4 THEN "*" ELSE secret[i]

\* the secret is shown masked when it is not empty, as it is otherwise
ShownMasked(secret, shown) ==
    IF secret = <<>> THEN shown = <<>> ELSE Masked(secret, shown)

\* C24 as stated: the safe export shows every non-empty secret, at any
\* depth, in its masked form; the fields that are not secrets are unchanged;
\* the export that is not safe shows the secrets as they are
C24_SafeExportMasksSecrets ==
    ExportDone =>
        /\ NonSecretFieldsKept
        /\ exported.safe =>
              /\ ShownMasked(settings.openai_api_key, exported.d.o.openai_api_key.s)
              /\ ShownMasked(settings.litellm.api_key, exported.d.o.litellm.o.api_key.s)
        /\ ~exported.safe =>
              /\ exported.d.o.openai_api_key.s = settings.openai_api_key
              /\ exported.d.o.litellm.o.api_key.s = settings.litellm.api_key

\* C24, amended: the safe export of a configuration whose redact_secrets is
\* on shows every non-empty secret, at any depth, in its masked form; the
\* fields that are not secrets are unchanged; the export that is not safe,
\* and every export of a configuration whose redact_secrets is off, shows
\* the secrets as they are
C24_SafeExportMasksWhenRedacting ==
    ExportDone =>
        /\ NonSecretFieldsKept
        /\ exported.safe /\ settings.redact_secrets =>
              /\ ShownMasked(settings.openai_api_key, exported.d.o.openai_api_key.s)
              /\ ShownMasked(settings.litellm.api_key, exported.d.o.litellm.o.api_key.s)
        /\ ~(exported.safe /\ settings.redact_secrets) =>
              /\ exported.d.o.openai_api_key.s = settings.openai_api_key
              /\ exported.d.o.litellm.o.api_key.s = settings.litellm.api_key

\* a safe export with redaction on of two secrets, one of more than 4
\* characters at the top and one of at most 4 in the nested object, neither
\* of which it shows
C24_Witness ==
    /\ ExportDone
    /\ exported.safe
    /\ settings.redact_secrets
    /\ Len(settings.openai_api_key) > 4
    /\ settings.litellm.api_key # <<>>
    /\ Len(settings.litellm.api_key) <= 4
    /\ exported.d.o.openai_api_key.s # settings.openai_api_key
    /\ exported.d.o.litellm.o.api_key.s # settings.litellm.api_key

====
